---- MODULE Spec2Model ----
(***************************************************************************)
(* Model of the retry-and-validation state machine of the word-count       *)
(* rewriter: WordCounter, HardRulesValidator, SemanticValidator, LLMClient *)
(* (as far as the orchestrator drives it) and RewriteOrchestrator.         *)
(*                                                                         *)
(* Conventions                                                             *)
(*  - a text (Python str) is a sequence of one-character strings;          *)
(*  - an Optional value is a sequence of length <= 1: <<>> is None and     *)
(*    <<x>> is the value x (so None and the empty text stay distinct);     *)
(*  - a similarity is an integer number of hundredths (0.75 is 75);        *)
(*  - a cost is an integer number of nano-dollars (1e-9 USD).              *)
(***************************************************************************)
EXTENDS Integers, Sequences, FiniteSets, TLC

(***************************************************************************)
(* Characters: the classes the regular expressions and str.split use.      *)
(***************************************************************************)
Digits == {"0", "1", "2", "3", "4", "5", "6", "7", "8", "9"}

UpperSeq == <<"A", "B", "C", "D", "E", "F", "G", "H", "I", "J", "K", "L", "M",
              "N", "O", "P", "Q", "R", "S", "T", "U", "V", "W", "X", "Y", "Z">>

LowerSeq == <<"a", "b", "c", "d", "e", "f", "g", "h", "i", "j", "k", "l", "m",
              "n", "o", "p", "q", "r", "s", "t", "u", "v", "w", "x", "y", "z">>

UpperCase == {UpperSeq[i] : i \in 1..Len(UpperSeq)}

LowerCase == {LowerSeq[i] : i \in 1..Len(LowerSeq)}

\* \w of the re module (on the characters the model uses)
WordChars == Digits \cup UpperCase \cup LowerCase \cup {"_"}

\* \s of the re module and the separators of str.split()
Whitespace == {" ", "\t", "\n"}

\* str.lower() on one character
ToLower(c) ==
    IF c \in UpperCase
    THEN LowerSeq[CHOOSE i \in 1..Len(UpperSeq) : UpperSeq[i] = c]
    ELSE c

\* str.lower() on a text
Lower(text) == [i \in 1..Len(text) |-> ToLower(text[i])]

\* text[i:j] with 1-based inclusive start i and exclusive end j
Slice(text, i, j) == SubSeq(text, i, j - 1)

\* first index >= i whose character is not in class cls (Len+1 if none)
RECURSIVE RunEnd(_, _, _)
RunEnd(text, i, cls) ==
    IF i > Len(text) \/ text[i] \notin cls
    THEN i
    ELSE RunEnd(text, i + 1, cls)

\* first index >= i whose character is whitespace (Len+1 if none)
RECURSIVE WordEnd(_, _)
WordEnd(text, i) ==
    IF i > Len(text) \/ text[i] \in Whitespace
    THEN i
    ELSE WordEnd(text, i + 1)

\* \b at the gap before index i (between text[i-1] and text[i])
AtBoundary(text, i) ==
    LET before == i > 1 /\ i - 1 <= Len(text) /\ text[i - 1] \in WordChars
        after  == i >= 1 /\ i <= Len(text) /\ text[i] \in WordChars
    IN  before # after

(***************************************************************************)
(* WordCounter                                                             *)
(***************************************************************************)

\* str.split(): the maximal runs of non-whitespace characters, in order (the
\* end j of a word is bound through a set, which computes it once)
RECURSIVE SplitFrom(_, _)
SplitFrom(text, i) ==
    IF i > Len(text)
    THEN <<>>
    ELSE IF text[i] \in Whitespace
         THEN SplitFrom(text, i + 1)
         ELSE CHOOSE words \in {<<Slice(text, i, j)>> \o SplitFrom(text, j) :
                                    j \in {WordEnd(text, i)}} : TRUE

Split(text) == SplitFrom(text, 1)

\* str.strip() == "" : the text has no non-whitespace character
IsBlank(text) == \A k \in 1..Len(text) : text[k] \in Whitespace

\* count splitting at every single whitespace character
count_SplitsAtEachSpace(text) ==
    IF text = <<>> \/ IsBlank(text)
    THEN 0
    ELSE 1 + Cardinality({k \in 1..Len(text) : text[k] \in Whitespace})

\* WordCounter.count
count(text) ==
    IF text = <<>> \/ IsBlank(text)
    THEN 0
    ELSE Len(Split(text))

\* text.find(word, pos) for 0 <= pos: the first 0-based index >= pos at
\* which word occurs in text, -1 if there is none
RECURSIVE Find(_, _, _)
Find(text, word, pos) ==
    IF pos + Len(word) > Len(text)
    THEN -1
    ELSE IF SubSeq(text, pos + 1, pos + Len(word)) = word
         THEN pos
         ELSE Find(text, word, pos + 1)

\* the loop of get_word_boundaries over the words left, from current_pos
RECURSIVE BoundariesFrom(_, _, _)
BoundariesFrom(text, words, current_pos) ==
    IF words = <<>>
    THEN <<>>
    ELSE LET start == Find(text, Head(words), current_pos)
         IN  <<<<start, start + Len(Head(words))>>>>
                 \o BoundariesFrom(text, Tail(words),
                                   start + Len(Head(words)))

\* get_word_boundaries searching every word from the start of the text
get_word_boundaries_FindsFromStart(text) ==
    LET words == Split(text)
    IN  [k \in 1..Len(words) |->
            <<Find(text, words[k], 0), Find(text, words[k], 0) + Len(words[k])>>]

\* WordCounter.get_word_boundaries: the (start, end) pairs, 0-based, end
\* exclusive
get_word_boundaries(text) == BoundariesFrom(text, Split(text), 0)

\* WordCounter.CRITICAL_TOKENS_PATTERNS, by name
CRITICAL_TOKENS_PATTERNS == <<"decimal", "percent", "date", "acronym">>

\* One match attempt of re at index i: the exclusive end of the match of
\* pattern pat that starts at i, or 0 when the pattern does not match there.
\*   decimal  \d+[.,]\d+
\*   percent  \d+\s*%
\*   date     \b\d{1,2}[/-]\d{1,2}[/-]\d{2,4}\b
\*   acronym  \b[A-Z]{2,}\b
\*   integer  \b\d+\b
\* The quantifiers are greedy; in each pattern the character that must follow
\* a run is outside the run's class, so backtracking never finds a match the
\* maximal run does not.
MatchEnd(pat, text, i) ==
    LET n  == Len(text)
        IsCh(k, cls) == k >= 1 /\ k <= n /\ text[k] \in cls
        d1 == RunEnd(text, i, Digits)
    IN  CASE pat = "decimal" ->
               IF IsCh(i, Digits) /\ IsCh(d1, {".", ","}) /\ IsCh(d1 + 1, Digits)
               THEN RunEnd(text, d1 + 1, Digits)
               ELSE 0
          [] pat = "percent" ->
               LET s == RunEnd(text, d1, Whitespace)
               IN  IF IsCh(i, Digits) /\ IsCh(s, {"%"})
                   THEN s + 1
                   ELSE 0
          [] pat = "date" ->
               LET d2 == RunEnd(text, d1 + 1, Digits)
                   d3 == RunEnd(text, d2 + 1, Digits)
               IN  IF /\ AtBoundary(text, i)
                      /\ IsCh(i, Digits)
                      /\ d1 - i \in 1..2
                      /\ IsCh(d1, {"/", "-"})
                      /\ d2 - (d1 + 1) \in 1..2
                      /\ IsCh(d2, {"/", "-"})
                      /\ d3 - (d2 + 1) \in 2..4
                      /\ AtBoundary(text, d3)
                   THEN d3
                   ELSE 0
          [] pat = "acronym" ->
               LET u == RunEnd(text, i, UpperCase)
               IN  IF /\ AtBoundary(text, i)
                      /\ IsCh(i, UpperCase)
                      /\ u - i >= 2
                      /\ AtBoundary(text, u)
                   THEN u
                   ELSE 0
          [] pat = "integer" ->
               IF AtBoundary(text, i) /\ IsCh(i, Digits) /\ AtBoundary(text, d1)
               THEN d1
               ELSE 0

\* set(re.findall(pat, text)): scan left to right, resume after each match
RECURSIVE FindAllFrom(_, _, _)
FindAllFrom(pat, text, i) ==
    IF i > Len(text)
    THEN {}
    ELSE UNION {IF j > 0
                THEN {Slice(text, i, j)} \cup FindAllFrom(pat, text, j)
                ELSE FindAllFrom(pat, text, i + 1) :
                    j \in {MatchEnd(pat, text, i)}}

FindAll(pat, text) == FindAllFrom(pat, text, 1)

\* WordCounter.extract_critical_tokens (the list is built from a set: its
\* order is arbitrary and no caller depends on it)
extract_critical_tokens(text) ==
    UNION {FindAll(CRITICAL_TOKENS_PATTERNS[k], text) :
              k \in 1..Len(CRITICAL_TOKENS_PATTERNS)}

(***************************************************************************)
(* HardRulesValidator                                                      *)
(***************************************************************************)

\* token in rewritten (str.__contains__)
Contains(text, token) ==
    \E i \in 1..(Len(text) + 1) :
        /\ i + Len(token) - 1 <= Len(text)
        /\ Slice(text, i, i + Len(token)) = token

\* HardRulesValidator._check_numeric_preservation
NumericPatterns == <<"decimal", "percent", "date", "integer">>

\* the check requiring the same matches on both sides
check_numeric_preservation_SameSets(original, rewritten) ==
    \A k \in 1..Len(NumericPatterns) :
        FindAll(NumericPatterns[k], original)
            = FindAll(NumericPatterns[k], rewritten)

check_numeric_preservation(original, rewritten) ==
    \A k \in 1..Len(NumericPatterns) :
        FindAll(NumericPatterns[k], original)
            \subseteq FindAll(NumericPatterns[k], rewritten)

\* _check_critical_tokens comparing case-insensitively
check_critical_tokens_IgnoreCase(rewritten, critical_tokens) ==
    \A token \in critical_tokens : Contains(Lower(rewritten), Lower(token))

\* HardRulesValidator._check_critical_tokens
check_critical_tokens(rewritten, critical_tokens) ==
    \A token \in critical_tokens : Contains(rewritten, token)

\* the stop words of _check_no_new_facts (the accented one is left out: the
\* model's texts are ASCII)
StopWords ==
    {<<"e","l">>, <<"l","a">>, <<"l","o","s">>, <<"l","a","s">>,
     <<"u","n">>, <<"u","n","a">>, <<"u","n","o","s">>, <<"u","n","a","s">>,
     <<"d","e">>, <<"d","e","l">>, <<"a">>, <<"a","l">>, <<"e","n">>,
     <<"c","o","n">>, <<"s","i","n">>, <<"p","o","r">>, <<"p","a","r","a">>,
     <<"y">>, <<"o">>, <<"p","e","r","o">>, <<"q","u","e">>, <<"e","s">>,
     <<"s","o","n">>}

\* set(w.lower() for w in text.split() if w.lower() not in stop_words)
SubstantialWords(text) ==
    LET words == Split(text)
    IN  {Lower(words[k]) : k \in 1..Len(words)} \ StopWords

\* _check_no_new_facts rejecting at 40% already
check_no_new_facts_RejectsAtLimit(original, rewritten) ==
    LET original_words  == SubstantialWords(original)
        rewritten_words == SubstantialWords(rewritten)
        new_words       == rewritten_words \ original_words
    IN  ~ (10 * Cardinality(new_words) >= 4 * Cardinality(original_words))

\* HardRulesValidator._check_no_new_facts:
\* len(new_words) > len(original_words) * 0.4 rejects
check_no_new_facts(original, rewritten) ==
    LET original_words  == SubstantialWords(original)
        rewritten_words == SubstantialWords(rewritten)
        new_words       == rewritten_words \ original_words
    IN  ~ (10 * Cardinality(new_words) > 4 * Cardinality(original_words))

ReasonNumeric  == "Numeros, fechas o porcentajes no fueron preservados"
ReasonCritical == "No se preservaron todos los tokens criticos"
ReasonNewFacts == "Se detectaron hechos o informacion nueva"

\* validate checking the critical tokens before the numbers
HardRulesValidate_CriticalFirst(original_text, rewritten_text, critical_tokens) ==
    IF critical_tokens # {}
       /\ ~ check_critical_tokens(rewritten_text, critical_tokens)
    THEN [passed |-> FALSE, reason |-> ReasonCritical]
    ELSE IF ~ check_numeric_preservation(original_text, rewritten_text)
         THEN [passed |-> FALSE, reason |-> ReasonNumeric]
         ELSE IF ~ check_no_new_facts(original_text, rewritten_text)
              THEN [passed |-> FALSE, reason |-> ReasonNewFacts]
              ELSE [passed |-> TRUE, reason |-> ""]

\* HardRulesValidator.validate: (passed, reason)
HardRulesValidate(original_text, rewritten_text, critical_tokens) ==
    IF ~ check_numeric_preservation(original_text, rewritten_text)
    THEN [passed |-> FALSE, reason |-> ReasonNumeric]
    ELSE IF critical_tokens # {}
            /\ ~ check_critical_tokens(rewritten_text, critical_tokens)
         THEN [passed |-> FALSE, reason |-> ReasonCritical]
         ELSE IF ~ check_no_new_facts(original_text, rewritten_text)
              THEN [passed |-> FALSE, reason |-> ReasonNewFacts]
              ELSE [passed |-> TRUE, reason |-> ""]

(***************************************************************************)
(* Optional values                                                         *)
(***************************************************************************)
None == <<>>

Some(x) == <<x>>

(***************************************************************************)
(* SemanticValidator                                                       *)
(***************************************************************************)

\* math.sqrt on the sums of squares the model's vectors have (all of them
\* perfect squares, so the root is exact)
RECURSIVE SqrtFrom(_, _)
SqrtFrom(n, r) == IF (r + 1) * (r + 1) > n THEN r ELSE SqrtFrom(n, r + 1)

Sqrt(n) == SqrtFrom(n, 0)

RECURSIVE SumSeq(_)
SumSeq(s) == IF s = <<>> THEN 0 ELSE Head(s) + SumSeq(Tail(s))

\* _cosine_similarity taking a zero vector as similar to everything
cosine_similarity_ZeroIsSimilar(vec1, vec2) ==
    LET dot_product == SumSeq([i \in 1..Len(vec1) |-> vec1[i] * vec2[i]])
        norm1 == Sqrt(SumSeq([i \in 1..Len(vec1) |-> vec1[i] * vec1[i]]))
        norm2 == Sqrt(SumSeq([i \in 1..Len(vec2) |-> vec2[i] * vec2[i]]))
    IN  IF norm1 = 0 \/ norm2 = 0
        THEN 100
        ELSE (dot_product * 100) \div (norm1 * norm2)

\* SemanticValidator._cosine_similarity for vectors of equal length, in
\* hundredths (the model's vectors make the quotient a whole number)
cosine_similarity(vec1, vec2) ==
    LET dot_product == SumSeq([i \in 1..Len(vec1) |-> vec1[i] * vec2[i]])
        norm1 == Sqrt(SumSeq([i \in 1..Len(vec1) |-> vec1[i] * vec1[i]]))
        norm2 == Sqrt(SumSeq([i \in 1..Len(vec2) |-> vec2[i] * vec2[i]]))
    IN  IF norm1 = 0 \/ norm2 = 0
        THEN 0
        ELSE (dot_product * 100) \div (norm1 * norm2)

ReasonSemantic == "Similitud semantica baja"

\* validate failing closed when an embedding cannot be had or compared
SemanticValidate_FailsClosed(has_client, emb1, emb2, threshold) ==
    IF ~ has_client
    THEN [passed |-> TRUE, similarity |-> 100, reason |-> ""]
    ELSE IF emb1 = None \/ emb2 = None \/ Len(emb1[1]) # Len(emb2[1])
         THEN [passed |-> FALSE, similarity |-> 0, reason |-> ReasonSemantic]
         ELSE LET similarity == cosine_similarity(emb1[1], emb2[1])
              IN  IF similarity >= threshold
                  THEN [passed |-> TRUE, similarity |-> similarity,
                        reason |-> ""]
                  ELSE [passed |-> FALSE, similarity |-> similarity,
                        reason |-> ReasonSemantic]

\* validate passing only above the threshold
SemanticValidate_ExcludesEquality(has_client, emb1, emb2, threshold) ==
    IF ~ has_client
    THEN [passed |-> TRUE, similarity |-> 100, reason |-> ""]
    ELSE IF emb1 = None \/ emb2 = None \/ Len(emb1[1]) # Len(emb2[1])
         THEN \* except Exception: fail open
              [passed |-> TRUE, similarity |-> 0, reason |-> ""]
         ELSE LET similarity == cosine_similarity(emb1[1], emb2[1])
              IN  IF similarity > threshold
                  THEN [passed |-> TRUE, similarity |-> similarity,
                        reason |-> ""]
                  ELSE [passed |-> FALSE, similarity |-> similarity,
                        reason |-> ReasonSemantic]

\* validate without a client answering as it does after an exception
SemanticValidate_NoClientScoresZero(has_client, emb1, emb2, threshold) ==
    IF ~ has_client
    THEN [passed |-> TRUE, similarity |-> 0, reason |-> ""]
    ELSE IF emb1 = None \/ emb2 = None \/ Len(emb1[1]) # Len(emb2[1])
         THEN \* except Exception: fail open
              [passed |-> TRUE, similarity |-> 0, reason |-> ""]
         ELSE LET similarity == cosine_similarity(emb1[1], emb2[1])
              IN  IF similarity >= threshold
                  THEN [passed |-> TRUE, similarity |-> similarity,
                        reason |-> ""]
                  ELSE [passed |-> FALSE, similarity |-> similarity,
                        reason |-> ReasonSemantic]

\* SemanticValidator.validate: (passed, similarity, reason).
\* has_client: self.llm_client is set; emb1, emb2: what get_embedding gave for
\* the original and the rewritten text, None when the call raised.
SemanticValidate(has_client, emb1, emb2, threshold) ==
    IF ~ has_client
    THEN [passed |-> TRUE, similarity |-> 100, reason |-> ""]
    ELSE IF emb1 = None \/ emb2 = None \/ Len(emb1[1]) # Len(emb2[1])
         THEN \* except Exception: fail open
              [passed |-> TRUE, similarity |-> 0, reason |-> ""]
         ELSE LET similarity == cosine_similarity(emb1[1], emb2[1])
              IN  IF similarity >= threshold
                  THEN [passed |-> TRUE, similarity |-> similarity,
                        reason |-> ""]
                  ELSE [passed |-> FALSE, similarity |-> similarity,
                        reason |-> ReasonSemantic]

\* number of get_embedding calls validate makes: the second is skipped when
\* the first raises
EmbeddingCalls(has_client, emb1) ==
    IF ~ has_client THEN 0 ELSE IF emb1 = None THEN 1 ELSE 2

(***************************************************************************)
(* config.AVAILABLE_MODELS: prices in nano-dollars per token               *)
(* (USD per million tokens times 1000)                                     *)
(***************************************************************************)
KnownModels == {"gpt-4o-mini", "gpt-3.5-turbo", "gpt-4.1-mini", "gpt-4.1",
                "gpt-4o"}

AVAILABLE_MODELS ==
    [m \in KnownModels |->
        CASE m = "gpt-4o-mini"   ->
               [api_name |-> m, input |-> 150, cached |-> 75, output |-> 600]
          [] m = "gpt-3.5-turbo" ->
               [api_name |-> m, input |-> 500, cached |-> 250, output |-> 1500]
          [] m = "gpt-4.1-mini"  ->
               [api_name |-> m, input |-> 400, cached |-> 100, output |-> 1600]
          [] m = "gpt-4.1"       ->
               [api_name |-> m, input |-> 2000, cached |-> 500, output |-> 8000]
          [] m = "gpt-4o"        ->
               [api_name |-> m, input |-> 5000, cached |-> 2500,
                output |-> 15000]]

\* AVAILABLE_MODELS.get(model, AVAILABLE_MODELS["gpt-4o-mini"])
ModelConfig(model) ==
    IF model \in KnownModels
    THEN AVAILABLE_MODELS[model]
    ELSE AVAILABLE_MODELS["gpt-4o-mini"]

\* LLMClient._calculate_cost, with the pricing of model_config
calculate_cost(tokens, model_config) ==
    tokens.input * model_config.input
        + tokens.cached * model_config.cached
        + tokens.output * model_config.output

\* abs(n)
Abs(n) == IF n < 0 THEN 0 - n ELSE n

\* LLMClient._build_prompt, as far as delta shapes the prompt: instruction 6,
\* "Tu respuesta anterior tuvo <words> palabras de diferencia. <direction>
\* <words> palabras.", or None when the instruction is left out
build_prompt(delta) ==
    IF delta # None /\ delta[1] # 0
    THEN Some([direction |-> IF delta[1] > 0 THEN "faltan" ELSE "sobran",
               words     |-> Abs(delta[1])])
    ELSE None

\* round(x, digits) on a cost in nano-dollars: to the nearest multiple of
\* unit, ties to even
Round(n, unit) ==
    LET q == n \div unit
        r == n % unit
    IN  IF 2 * r < unit THEN q * unit
        ELSE IF 2 * r > unit THEN (q + 1) * unit
        ELSE IF q % 2 = 0 THEN q * unit ELSE (q + 1) * unit

(***************************************************************************)
(* RewriteOrchestrator: pure helpers                                       *)
(***************************************************************************)

\* _validate_request without the min_words < 1 test
validate_request_NoMinCheck(req) ==
    /\ req.input_text # <<>>
    /\ ~ (req.max_words < req.min_words)
    /\ ~ (req.max_attempts < 1)

\* RewriteOrchestrator._validate_request
validate_request(req) ==
    /\ req.input_text # <<>>
    /\ ~ (req.min_words < 1 \/ req.max_words < req.min_words)
    /\ ~ (req.max_attempts < 1)

\* _calculate_target_words without the upper clamp
calculate_target_words_NoUpperClamp(original_count, min_words, max_words) ==
    IF original_count < min_words
    THEN min_words
    ELSE original_count

\* RewriteOrchestrator._calculate_target_words
calculate_target_words(original_count, min_words, max_words) ==
    IF original_count < min_words
    THEN min_words
    ELSE IF original_count > max_words
         THEN max_words
         ELSE original_count

\* RewriteOrchestrator._calculate_total_cost: round(total, 4)
RECURSIVE SumCost(_)
SumCost(log) ==
    IF log = <<>>
    THEN 0
    ELSE (IF Head(log).token_metrics # None
          THEN Head(log).token_metrics[1].cost_usd
          ELSE 0) + SumCost(Tail(log))

calculate_total_cost(log) == Round(SumCost(log), 100000)

\* RewriteOrchestrator._calculate_total_token_metrics
RECURSIVE SumTokens(_, _)
SumTokens(log, fld) ==
    IF log = <<>>
    THEN 0
    ELSE (IF Head(log).token_metrics # None
          THEN Head(log).token_metrics[1][fld]
          ELSE 0) + SumTokens(Tail(log), fld)

RECURSIVE FirstModel(_)
FirstModel(log) ==
    IF log = <<>>
    THEN ""
    ELSE IF Head(log).token_metrics # None
            /\ Head(log).token_metrics[1].model # ""
         THEN Head(log).token_metrics[1].model
         ELSE FirstModel(Tail(log))

\* the aggregate without the cached tokens
calculate_total_token_metrics_OmitsCached(log) ==
    LET total_input  == SumTokens(log, "input_tokens")
        total_output == SumTokens(log, "output_tokens")
    IN  IF total_input = 0 /\ total_output = 0
        THEN None
        ELSE Some([input_tokens  |-> total_input,
                   cached_tokens |-> 0,
                   output_tokens |-> total_output,
                   cost_usd      |-> Round(SumCost(log), 1000),
                   model         |-> FirstModel(log)])

calculate_total_token_metrics(log) ==
    LET total_input  == SumTokens(log, "input_tokens")
        total_cached == SumTokens(log, "cached_tokens")
        total_output == SumTokens(log, "output_tokens")
    IN  IF total_input = 0 /\ total_output = 0
        THEN None
        ELSE Some([input_tokens  |-> total_input,
                   cached_tokens |-> total_cached,
                   output_tokens |-> total_output,
                   cost_usd      |-> Round(SumCost(log), 1000),
                   model         |-> FirstModel(log)])

(***************************************************************************)
(* Inputs of the model                                                     *)
(***************************************************************************)

\* bound on request.max_attempts
MaxAttempts == 3

\* the threads that may run orchestrate on the one orchestrator
Procs == {1, 2}

\* models.dto.Mode
STRICT == "strict"

BALANCED == "balanced"

\* texts: "USA 7%", blank, and the candidates the rewriting service may give
TxtInput    == <<"U","S","A"," ","7","%">>
TxtBlank    == <<" ">>
TxtLa       == <<"l","a"," ","U","S","A"," ","7","%">>
TxtEl       == <<"e","l"," ","U","S","A"," ","7","%">>
TxtUn       == <<"u","n"," ","U","S","A"," ","7","%">>
TxtDeLa     == <<"d","e"," ","l","a"," ","U","S","A"," ","7","%">>
TxtEs       == <<"U","S","A"," ","7","%"," ","e","s">>
TxtAl       == <<"a","l"," ","U","S","A"," ","7","%">>
TxtOcho     == <<"l","a"," ","U","S","A"," ","8","%">>
TxtLower    == <<"l","a"," ","u","s","a"," ","7","%">>
TxtGato     == <<"U","S","A"," ","7","%"," ","g","a","t","o">>
TxtEmpty    == <<>>

\* a three-word input with candidates of 20 and of 10 words
TxtTres ==
    <<"u", "n", "o", " ", "d", "o", "s", " ", "t", "r", "e", "s">>

TxtVeinte ==
    <<"u", "n", "o", " ", "d", "o", "s", " ", "t", "r", "e", "s", " ", "y",
      " ", "u", "n", "o", " ", "d", "o", "s", " ", "t", "r", "e", "s", " ",
      "y", " ", "u", "n", "o", " ", "d", "o", "s", " ", "u", "n", "o", " ",
      "d", "o", "s", " ", "t", "r", "e", "s", " ", "y", " ", "u", "n", "o",
      " ", "d", "o", "s", " ", "t", "r", "e", "s", " ", "y", " ", "u", "n",
      "o", " ", "d", "o", "s">>

TxtDiez ==
    <<"u", "n", "o", " ", "d", "o", "s", " ", "t", "r", "e", "s", " ", "y",
      " ", "u", "n", "o", " ", "d", "o", "s", " ", "t", "r", "e", "s", " ",
      "y", " ", "u", "n", "o", " ", "d", "o", "s">>

\* embedding vectors; against VecOrig their cosine is 1.00, 0.60, 0.70, 0.65,
\* 0.75, 0.85, -1.00 and 0 (zero vector); VecShort has another dimension
VecOrig  == <<1, 0, 0, 0, 0>>
Vec60    == <<3, 4, 0, 0, 0>>
Vec70    == <<7, 7, 1, 1, 0>>
Vec65    == <<13, 15, 2, 1, 1>>
Vec75    == <<3, 2, 1, 1, 1>>
Vec85    == <<17, 10, 3, 1, 1>>
VecNeg   == <<-1, 0, 0, 0, 0>>
VecZero  == <<0, 0, 0, 0, 0>>
VecShort == <<1, 0>>

Usage(i, c, o) == [input |-> i, cached |-> c, output |-> o]

\* One successful round of the collaborators: the text and token usage the
\* chat completion returns, and what the two get_embedding calls of that
\* attempt give (None: the call raises).
Reply(text, tokens, emb1, emb2) ==
    [text |-> text, tokens |-> tokens, emb1 |-> emb1, emb2 |-> emb2]

Replies ==
    { Reply(TxtLa,    Usage(100, 0, 50), Some(VecOrig), Some(Vec60)),
      Reply(TxtEl,    Usage(80, 0, 40),  Some(VecOrig), Some(Vec70)),
      Reply(TxtUn,    Usage(100, 0, 50), Some(VecOrig), Some(Vec65)),
      Reply(TxtDeLa,  Usage(100, 0, 50), Some(VecOrig), Some(Vec75)),
      Reply(TxtEs,    Usage(100, 20, 50), Some(VecOrig), Some(Vec85)),
      Reply(TxtAl,    Usage(100, 0, 50), Some(VecOrig), Some(VecNeg)),
      Reply(TxtLa,    Usage(100, 0, 50), None,          None),
      Reply(TxtOcho,  Usage(100, 0, 50), Some(VecOrig), Some(VecOrig)),
      Reply(TxtLower, Usage(100, 0, 50), Some(VecOrig), Some(VecShort)),
      Reply(TxtGato,  Usage(100, 0, 50), Some(VecOrig), Some(VecZero)),
      Reply(TxtInput, Usage(100, 0, 50), Some(VecOrig), Some(VecOrig)),
      Reply(TxtEmpty, Usage(0, 0, 0),    Some(VecOrig), None) }

\* the candidates given for the three-word input
LongReplies ==
    { Reply(TxtVeinte, Usage(100, 0, 50), Some(VecOrig), Some(Vec60)),
      Reply(TxtDiez,   Usage(100, 0, 50), Some(VecOrig), Some(Vec85)) }

\* what the collaborators may answer to a rewrite of text
RepliesFor(text) == IF text = TxtTres THEN LongReplies ELSE Replies

\* str(e) of the two ways LLMClient.rewrite_text raises
FailureMessages == {"OpenAI API key no configurada", "Error en reescritura LLM"}

Request(text, lo, hi, model, mode, n) ==
    [input_text |-> text, min_words |-> lo, max_words |-> hi,
     model |-> model, mode |-> mode, max_attempts |-> n]

\* the requests a caller may submit (InputRequest), invalid ones included
Requests ==
    { Request(t.text, t.lo, t.hi, t.model, t.mode, n) :
        t \in { [text |-> TxtEmpty, lo |-> 1, hi |-> 2,
                 model |-> "gpt-4o-mini", mode |-> BALANCED],
                [text |-> TxtInput, lo |-> 0, hi |-> 2,
                 model |-> "gpt-4o-mini", mode |-> BALANCED],
                [text |-> TxtInput, lo |-> 3, hi |-> 2,
                 model |-> "gpt-4o", mode |-> STRICT],
                [text |-> TxtInput, lo |-> 1, hi |-> 2,
                 model |-> "gpt-4o", mode |-> STRICT],
                [text |-> TxtInput, lo |-> 3, hi |-> 4,
                 model |-> "gpt-4o-mini", mode |-> BALANCED],
                [text |-> TxtInput, lo |-> 3, hi |-> 4,
                 model |-> "gpt-4o", mode |-> STRICT],
                [text |-> TxtInput, lo |-> 1, hi |-> 1,
                 model |-> "gpt-4o-mini", mode |-> STRICT],
                [text |-> TxtBlank, lo |-> 3, hi |-> 4,
                 model |-> "gpt-4o", mode |-> BALANCED],
                [text |-> TxtTres, lo |-> 5, hi |-> 15,
                 model |-> "gpt-4o-mini", mode |-> BALANCED] },
        n \in 0..MaxAttempts }

\* the requests of two concurrent calls: one attempt each
ConcurrentRequests ==
    { Request(TxtInput, 0, 2, "gpt-4o-mini", BALANCED, 1),
      Request(TxtInput, 1, 2, "gpt-4o", STRICT, 1),
      Request(TxtInput, 3, 4, "gpt-4o-mini", BALANCED, 1),
      Request(TxtInput, 3, 4, "gpt-4o", STRICT, 1) }

\* the request slot of a thread that is not running orchestrate
NoRequest == Request(TxtEmpty, 0, 0, "", BALANCED, 0)

\* no component has been called directly
NoUnitCall == [op |-> "none"]

(***************************************************************************)
(* State                                                                   *)
(***************************************************************************)
VARIABLES
    request,           \* per thread: the InputRequest of its orchestrate call
    pc,                \* per thread: where the call stands
    original_count,    \* per thread: local original_count
    critical_tokens,   \* per thread: local critical_tokens
    target_words,      \* per thread: local target_words (Optional)
    attempt_num,       \* per thread: local attempt_num of the for loop
    attempts,          \* per thread: local attempts, the attempt log
    best_candidate,    \* per thread: local best_candidate (Optional text)
    best_similarity,   \* per thread: local best_similarity
    calls,             \* per thread: the collaborator and validator calls made
    result,            \* per thread: the OutputResult returned (Optional)
    llm_model,         \* LLMClient.model of the shared client
    llm_model_config,  \* LLMClient.model_config of the shared client
    unit               \* the latest direct call of a component, as the tests make

vars == <<request, pc, original_count, critical_tokens, target_words,
          attempt_num, attempts, best_candidate, best_similarity, calls,
          result, llm_model, llm_model_config, unit>>

locals == <<original_count, critical_tokens, target_words, attempt_num,
            attempts, best_candidate, best_similarity>>

\* the state of the threads before orchestrate touches anything, and the
\* client as create_app builds it: LLMClient(model='gpt-4-turbo'), a model
\* AVAILABLE_MODELS does not list
InitCommon ==
    /\ original_count = [p \in Procs |-> 0]
    /\ critical_tokens = [p \in Procs |-> {}]
    /\ target_words = [p \in Procs |-> None]
    /\ attempt_num = [p \in Procs |-> 0]
    /\ attempts = [p \in Procs |-> <<>>]
    /\ best_candidate = [p \in Procs |-> None]
    /\ best_similarity = [p \in Procs |-> -100]
    /\ calls = [p \in Procs |-> <<>>]
    /\ result = [p \in Procs |-> None]
    /\ llm_model = "gpt-4-turbo"
    /\ llm_model_config = ModelConfig("gpt-4-turbo")
    /\ unit = NoUnitCall

\* one orchestrate call
Init ==
    /\ \E r \in Requests : request = [p \in Procs |-> IF p = 1 THEN r ELSE NoRequest]
    /\ pc = [p \in Procs |-> IF p = 1 THEN "start" ELSE "off"]
    /\ InitCommon

\* two orchestrate calls on the same orchestrator, in two threads
InitConcurrent ==
    /\ request \in [Procs -> ConcurrentRequests]
    /\ pc = [p \in Procs |-> "start"]
    /\ InitCommon

(***************************************************************************)
(* Records                                                                 *)
(***************************************************************************)

\* models.dto.AttemptRecord with its defaults
AttemptRecord(n, text, wc, status, delta, sim, hard, msg, metrics) ==
    [attempt_number |-> n, proposed_text |-> text, word_count |-> wc,
     status |-> status, delta |-> delta, similarity_score |-> sim,
     hard_rules_passed |-> hard, error_message |-> msg,
     token_metrics |-> metrics]

\* models.dto.OutputResult with its defaults
OutputResultDefaults ==
    [attempts |-> <<>>, validation_reason |-> "", target_words |-> None,
     mode |-> BALANCED, error |-> None, model |-> "gpt-4o-mini",
     total_token_metrics |-> None, total_cost_usd |-> 0]

\* OutputResult(**given): the fields given override the defaults
OutputResult(given) ==
    [f \in DOMAIN given \cup DOMAIN OutputResultDefaults |->
        IF f \in DOMAIN given THEN given[f] ELSE OutputResultDefaults[f]]

\* threshold = 0.85 if request.mode == Mode.STRICT else 0.75
Threshold(mode) == IF mode = STRICT THEN 85 ELSE 75

\* what one attempt computes from the reply of the collaborators
\* proposed_count = self.word_counter.count(proposed_text)
ProposedCount(reply) == count(reply.text)

\* self.semantic_validator.validate(input_text, proposed_text, threshold),
\* with the validator create_app wires: SemanticValidator(llm_client)
Semantic(req, reply) ==
    SemanticValidate(TRUE, reply.emb1, reply.emb2, Threshold(req.mode))

\* the range test without its upper bound
InRange_IgnoresUpperBound(req, reply) ==
    req.min_words <= ProposedCount(reply)

\* in_range = request.min_words <= proposed_count <= request.max_words
InRange(req, reply) ==
    req.min_words <= ProposedCount(reply)
        /\ ProposedCount(reply) <= req.max_words

\* self.hard_rules_validator.validate(input_text, proposed_text,
\* critical_tokens)
HardRules(req, crit, reply) ==
    HardRulesValidate(req.input_text, reply.text, crit)

\* the TokenMetrics LLMClient.rewrite_text builds when the completion
\* arrives: it reads self.model and self.model_config at that moment
TokenMetrics(tokens, model, model_config) ==
    [input_tokens |-> tokens.input, cached_tokens |-> tokens.cached,
     output_tokens |-> tokens.output,
     cost_usd |-> calculate_cost(tokens, model_config), model |-> model]

\* the calls one evaluated attempt adds to the call log
EmbedCalls(n, reply) ==
    [k \in 1..EmbeddingCalls(TRUE, reply.emb1) |->
        [op |-> "get_embedding", attempt_number |-> n]]

SemanticCall(n, req, reply) ==
    [op |-> "semantic_validate", attempt_number |-> n,
     original_text |-> req.input_text, rewritten_text |-> reply.text,
     threshold |-> Threshold(req.mode),
     emb1 |-> reply.emb1, emb2 |-> reply.emb2,
     passed |-> Semantic(req, reply).passed,
     similarity |-> Semantic(req, reply).similarity]

HardRulesCall(n, req, crit, reply) ==
    [op |-> "hard_rules_validate", attempt_number |-> n,
     original_text |-> req.input_text, rewritten_text |-> reply.text,
     critical_tokens |-> crit,
     passed |-> HardRules(req, crit, reply).passed]

(***************************************************************************)
(* RewriteOrchestrator.orchestrate, one action per step of a thread p      *)
(***************************************************************************)

\* the test "best_candidate is not None" in place of Python truth
Truthy_IsNotNone(opt) == opt # None

\* Python truth of an Optional[str]: neither None nor ""
Truthy(opt) == opt # None /\ opt[1] # <<>>

Return(p, given) ==
    /\ result' = [result EXCEPT ![p] = Some(OutputResult(given))]
    /\ pc' = [pc EXCEPT ![p] = "done"]

\* if not self._validate_request(request): return OutputResult(... "ERROR")
ReturnInvalid(p) ==
    /\ pc[p] = "start"
    /\ ~ validate_request(request[p])
    /\ Return(p, [original_text       |-> request[p].input_text,
                  original_word_count |-> 0,
                  final_text          |-> <<>>,
                  final_word_count    |-> 0,
                  status              |-> "ERROR",
                  total_attempts      |-> 0,
                  error               |-> Some("Solicitud invalida")])
    /\ UNCHANGED <<request, unit, locals, calls, llm_model, llm_model_config>>

\* orchestrate without the early return for a text already in range: the
\* text goes through the retries like any other
ReturnInRange_FallsThrough(p) ==
    LET req == request[p]
        n   == count(req.input_text)
    IN  /\ pc[p] = "start"
        /\ validate_request(req)
        /\ req.min_words <= n /\ n <= req.max_words
        /\ original_count' = [original_count EXCEPT ![p] = n]
        /\ critical_tokens' =
               [critical_tokens EXCEPT ![p] = extract_critical_tokens(req.input_text)]
        /\ target_words' =
               [target_words EXCEPT
                   ![p] = Some(calculate_target_words(n, req.min_words,
                                                      req.max_words))]
        /\ pc' = [pc EXCEPT ![p] = "set_model"]
        /\ UNCHANGED <<request, unit, attempt_num, attempts, best_candidate,
                       best_similarity, calls, result, llm_model,
                       llm_model_config>>

\* if request.min_words <= original_count <= request.max_words: return as is
ReturnInRange(p) ==
    LET req == request[p]
        n   == count(req.input_text)
    IN  /\ pc[p] = "start"
        /\ validate_request(req)
        /\ req.min_words <= n /\ n <= req.max_words
        /\ original_count' = [original_count EXCEPT ![p] = n]
        /\ Return(p, [original_text       |-> req.input_text,
                      original_word_count |-> n,
                      final_text          |-> req.input_text,
                      final_word_count    |-> n,
                      status              |-> "ACCEPTED",
                      total_attempts      |-> 0,
                      validation_reason   |-> "Ya esta dentro del rango"])
        /\ UNCHANGED <<request, unit, critical_tokens, target_words, attempt_num,
                       attempts, best_candidate, best_similarity, calls,
                       llm_model, llm_model_config>>

\* the text is out of range: extract the critical tokens, compute the target,
\* initialise attempts, best_candidate and best_similarity
BeginRetries(p) ==
    LET req == request[p]
        n   == count(req.input_text)
    IN  /\ pc[p] = "start"
        /\ validate_request(req)
        /\ ~ (req.min_words <= n /\ n <= req.max_words)
        /\ original_count' = [original_count EXCEPT ![p] = n]
        /\ critical_tokens' =
               [critical_tokens EXCEPT ![p] = extract_critical_tokens(req.input_text)]
        /\ target_words' =
               [target_words EXCEPT
                   ![p] = Some(calculate_target_words(n, req.min_words,
                                                      req.max_words))]
        /\ attempts' = [attempts EXCEPT ![p] = <<>>]
        /\ best_candidate' = [best_candidate EXCEPT ![p] = None]
        /\ best_similarity' = [best_similarity EXCEPT ![p] = -100]
        /\ pc' = [pc EXCEPT ![p] = "set_model"]
        /\ UNCHANGED <<request, unit, attempt_num, calls, result, llm_model,
                       llm_model_config>>

\* self.llm_client.model = request.model
SetModel(p) ==
    /\ pc[p] = "set_model"
    /\ llm_model' = request[p].model
    /\ pc' = [pc EXCEPT ![p] = "set_config"]
    /\ UNCHANGED <<request, unit, locals, calls, result, llm_model_config>>

\* self.llm_client.model_config = AVAILABLE_MODELS.get(request.model, ...)
\* and entry into the for loop
SetModelConfig(p) ==
    /\ pc[p] = "set_config"
    /\ llm_model_config' = ModelConfig(request[p].model)
    /\ attempt_num' = [attempt_num EXCEPT ![p] = 1]
    /\ pc' = [pc EXCEPT ![p] = "loop"]
    /\ UNCHANGED <<request, unit, original_count, critical_tokens, target_words,
                   attempts, best_candidate, best_similarity, calls, result,
                   llm_model>>

\* delta = count(best_candidate) - target_words if attempt_num > 1 and
\* best_candidate, else None
Delta(n, best, target) ==
    IF n > 1 /\ Truthy(best)
    THEN Some(count(best[1]) - target)
    ELSE None

\* the call sending the critical tokens on every attempt
CallRewrite_AlwaysSendsTokens(p) ==
    LET req == request[p]
        n   == attempt_num[p]
    IN  /\ pc[p] = "loop"
        /\ n <= req.max_attempts
        /\ calls' =
               [calls EXCEPT
                   ![p] = Append(@,
                       [op              |-> "rewrite_text",
                        attempt_number  |-> n,
                        text            |-> req.input_text,
                        min_words       |-> req.min_words,
                        max_words       |-> req.max_words,
                        target_words    |-> target_words[p][1],
                        mode            |-> req.mode,
                        delta           |-> Delta(n, best_candidate[p],
                                                  target_words[p][1]),
                        critical_tokens |-> Some(critical_tokens[p]),
                        model           |-> llm_model])]
        /\ pc' = [pc EXCEPT ![p] = "rewriting"]
        /\ UNCHANGED <<request, unit, locals, result, llm_model, llm_model_config>>

\* the loop running once more than max_attempts
CallRewrite_OneMoreAttempt(p) ==
    LET req == request[p]
        n   == attempt_num[p]
    IN  /\ pc[p] = "loop"
        /\ n <= req.max_attempts + 1
        /\ calls' =
               [calls EXCEPT
                   ![p] = Append(@,
                       [op              |-> "rewrite_text",
                        attempt_number  |-> n,
                        text            |-> req.input_text,
                        min_words       |-> req.min_words,
                        max_words       |-> req.max_words,
                        target_words    |-> target_words[p][1],
                        mode            |-> req.mode,
                        delta           |-> Delta(n, best_candidate[p],
                                                  target_words[p][1]),
                        critical_tokens |-> IF n = 1
                                            THEN Some(critical_tokens[p])
                                            ELSE None,
                        model           |-> llm_model])]
        /\ pc' = [pc EXCEPT ![p] = "rewriting"]
        /\ UNCHANGED <<request, unit, locals, result, llm_model, llm_model_config>>

\* top of the loop body: compute delta and call llm_client.rewrite_text; the
\* chat completion is requested with the client's model of that moment
CallRewrite(p) ==
    LET req == request[p]
        n   == attempt_num[p]
    IN  /\ pc[p] = "loop"
        /\ n <= req.max_attempts
        /\ calls' =
               [calls EXCEPT
                   ![p] = Append(@,
                       [op              |-> "rewrite_text",
                        attempt_number  |-> n,
                        text            |-> req.input_text,
                        min_words       |-> req.min_words,
                        max_words       |-> req.max_words,
                        target_words    |-> target_words[p][1],
                        mode            |-> req.mode,
                        delta           |-> Delta(n, best_candidate[p],
                                                  target_words[p][1]),
                        critical_tokens |-> IF n = 1
                                            THEN Some(critical_tokens[p])
                                            ELSE None,
                        model           |-> llm_model])]
        /\ pc' = [pc EXCEPT ![p] = "rewriting"]
        /\ UNCHANGED <<request, unit, locals, result, llm_model, llm_model_config>>

\* the record put at the head of the log instead of its end
Record_Prepends(p, rec) ==
    /\ attempts' = [attempts EXCEPT ![p] = <<rec>> \o @]
    /\ attempt_num' = [attempt_num EXCEPT ![p] = @ + 1]
    /\ pc' = [pc EXCEPT ![p] = "loop"]

\* appending a record and going on to the next attempt (continue)
Record(p, rec) ==
    /\ attempts' = [attempts EXCEPT ![p] = Append(@, rec)]
    /\ attempt_num' = [attempt_num EXCEPT ![p] = @ + 1]
    /\ pc' = [pc EXCEPT ![p] = "loop"]

\* the loop body without the try/except around rewrite_text: the exception
\* leaves orchestrate
RewriteFails_Propagates(p) ==
    /\ pc[p] = "rewriting"
    /\ pc' = [pc EXCEPT ![p] = "raised"]
    /\ UNCHANGED <<request, unit, locals, calls, result, llm_model, llm_model_config>>

\* the except clause taking the empty proposal as the new fallback
RewriteFails_ResetsFallback(p) ==
    /\ pc[p] = "rewriting"
    /\ \E msg \in FailureMessages :
          Record(p, AttemptRecord(attempt_num[p], <<>>, 0, "OUT_OF_RANGE", 0,
                                  None, TRUE, Some(msg), None))
    /\ best_candidate' = [best_candidate EXCEPT ![p] = Some(<<>>)]
    /\ UNCHANGED <<request, unit, original_count, critical_tokens,
                   target_words, best_similarity, calls, result, llm_model,
                   llm_model_config>>

\* except Exception as e: record OUT_OF_RANGE with str(e) and continue
RewriteFails(p) ==
    /\ pc[p] = "rewriting"
    /\ \E msg \in FailureMessages :
          Record(p, AttemptRecord(attempt_num[p], <<>>, 0, "OUT_OF_RANGE", 0,
                                  None, TRUE, Some(msg), None))
    /\ UNCHANGED <<request, unit, original_count, critical_tokens, target_words,
                   best_candidate, best_similarity, calls, result, llm_model,
                   llm_model_config>>

\* the calls of an attempt whose rewrite returned: the semantic validation
\* (with its embeddings) always, the hard rules only for an in-range proposal
AttemptCalls(p, reply, in_range) ==
    calls' = [calls EXCEPT
                 ![p] = @ \o <<SemanticCall(attempt_num[p], request[p], reply)>>
                          \o EmbedCalls(attempt_num[p], reply)
                          \o (IF in_range
                              THEN <<HardRulesCall(attempt_num[p], request[p],
                                                   critical_tokens[p], reply)>>
                              ELSE <<>>)]

\* the record of an attempt whose rewrite returned; delta_actual is
\* proposed_count - target_words, and the token metrics are those
\* rewrite_text built
Evaluated(p, reply, status, hard, msg) ==
    AttemptRecord(attempt_num[p], reply.text, ProposedCount(reply), status,
                  ProposedCount(reply) - target_words[p][1],
                  Some(Semantic(request[p], reply).similarity), hard, msg,
                  Some(TokenMetrics(reply.tokens, llm_model, llm_model_config)))

\* the out-of-range branch replacing the fallback only for a better
\* similarity, as the semantic branch does
AttemptOutOfRange_KeepsBetter(p) ==
    /\ pc[p] = "rewriting"
    /\ \E reply \in RepliesFor(request[p].input_text) :
          LET semantic == Semantic(request[p], reply)
          IN  /\ ~ InRange(request[p], reply)
              /\ Record(p, Evaluated(p, reply, "OUT_OF_RANGE", TRUE, None))
              /\ IF semantic.similarity > best_similarity[p]
                 THEN /\ best_similarity' =
                             [best_similarity EXCEPT ![p] = semantic.similarity]
                      /\ best_candidate' =
                             [best_candidate EXCEPT ![p] = Some(reply.text)]
                 ELSE UNCHANGED <<best_similarity, best_candidate>>
              /\ AttemptCalls(p, reply, FALSE)
    /\ UNCHANGED <<request, unit, original_count, critical_tokens,
                   target_words, result, llm_model, llm_model_config>>

\* if not in_range: record OUT_OF_RANGE; best_candidate = proposed_text
AttemptOutOfRange(p) ==
    /\ pc[p] = "rewriting"
    /\ \E reply \in RepliesFor(request[p].input_text) :
          /\ ~ InRange(request[p], reply)
          /\ Record(p, Evaluated(p, reply, "OUT_OF_RANGE", TRUE, None))
          /\ best_candidate' = [best_candidate EXCEPT ![p] = Some(reply.text)]
          /\ AttemptCalls(p, reply, FALSE)
    /\ UNCHANGED <<request, unit, original_count, critical_tokens, target_words,
                   best_similarity, result, llm_model, llm_model_config>>

\* if not hard_rules_valid: record REJECTED_BY_HARD_RULES;
\* best_candidate = proposed_text
AttemptRejectedByHardRules(p) ==
    /\ pc[p] = "rewriting"
    /\ \E reply \in RepliesFor(request[p].input_text) :
          /\ InRange(request[p], reply)
          /\ ~ HardRules(request[p], critical_tokens[p], reply).passed
          /\ Record(p, Evaluated(p, reply, "REJECTED_BY_HARD_RULES", FALSE,
                 Some(HardRules(request[p], critical_tokens[p], reply).reason)))
          /\ best_candidate' = [best_candidate EXCEPT ![p] = Some(reply.text)]
          /\ AttemptCalls(p, reply, TRUE)
    /\ UNCHANGED <<request, unit, original_count, critical_tokens, target_words,
                   best_similarity, result, llm_model, llm_model_config>>

\* if not semantic_valid: record REJECTED_BY_SEMANTIC_SIMILARITY; the
\* proposal becomes best_candidate only if similarity > best_similarity
AttemptRejectedBySemantic(p) ==
    /\ pc[p] = "rewriting"
    /\ \E reply \in RepliesFor(request[p].input_text) :
          LET semantic == Semantic(request[p], reply)
          IN  /\ InRange(request[p], reply)
              /\ ~ semantic.passed
              /\ HardRules(request[p], critical_tokens[p], reply).passed
              /\ Record(p, Evaluated(p, reply,
                     "REJECTED_BY_SEMANTIC_SIMILARITY", TRUE,
                     Some(semantic.reason)))
              /\ IF semantic.similarity > best_similarity[p]
                 THEN /\ best_similarity' =
                             [best_similarity EXCEPT ![p] = semantic.similarity]
                      /\ best_candidate' =
                             [best_candidate EXCEPT ![p] = Some(reply.text)]
                 ELSE UNCHANGED <<best_similarity, best_candidate>>
              /\ AttemptCalls(p, reply, TRUE)
    /\ UNCHANGED <<request, unit, original_count, critical_tokens, target_words,
                   result, llm_model, llm_model_config>>

\* the ACCEPTED branch without its return: the loop goes on
AttemptAccepted_Continues(p) ==
    /\ pc[p] = "rewriting"
    /\ \E reply \in RepliesFor(request[p].input_text) :
          /\ InRange(request[p], reply)
          /\ Semantic(request[p], reply).passed
          /\ HardRules(request[p], critical_tokens[p], reply).passed
          /\ Record(p, Evaluated(p, reply, "ACCEPTED", TRUE, None))
          /\ AttemptCalls(p, reply, TRUE)
    /\ UNCHANGED <<request, unit, original_count, critical_tokens, target_words,
                   best_candidate, best_similarity, result, llm_model,
                   llm_model_config>>

\* the ACCEPTED branch reached without the test of hard_rules_valid
AttemptAccepted_IgnoresHardRules(p) ==
    /\ pc[p] = "rewriting"
    /\ \E reply \in RepliesFor(request[p].input_text) :
          LET req == request[p]
              log == Append(attempts[p],
                            Evaluated(p, reply, "ACCEPTED", TRUE, None))
          IN  /\ InRange(req, reply)
              /\ Semantic(req, reply).passed
              /\ attempts' = [attempts EXCEPT ![p] = log]
              /\ AttemptCalls(p, reply, TRUE)
              /\ Return(p, [original_text       |-> req.input_text,
                            original_word_count |-> original_count[p],
                            final_text          |-> reply.text,
                            final_word_count    |-> ProposedCount(reply),
                            status              |-> "ACCEPTED",
                            total_attempts      |-> attempt_num[p],
                            attempts            |-> log,
                            validation_reason   |-> "Paso todas las validaciones",
                            target_words        |-> target_words[p],
                            mode                |-> req.mode,
                            model               |-> req.model,
                            total_token_metrics |->
                                calculate_total_token_metrics(log),
                            total_cost_usd      |-> calculate_total_cost(log)])
    /\ UNCHANGED <<request, unit, original_count, critical_tokens, target_words,
                   attempt_num, best_candidate, best_similarity, llm_model,
                   llm_model_config>>

\* both gates passed: record ACCEPTED and return at once
AttemptAccepted(p) ==
    /\ pc[p] = "rewriting"
    /\ \E reply \in RepliesFor(request[p].input_text) :
          LET req == request[p]
              log == Append(attempts[p],
                            Evaluated(p, reply, "ACCEPTED", TRUE, None))
          IN  /\ InRange(req, reply)
              /\ Semantic(req, reply).passed
              /\ HardRules(req, critical_tokens[p], reply).passed
              /\ attempts' = [attempts EXCEPT ![p] = log]
              /\ AttemptCalls(p, reply, TRUE)
              /\ Return(p, [original_text       |-> req.input_text,
                            original_word_count |-> original_count[p],
                            final_text          |-> reply.text,
                            final_word_count    |-> ProposedCount(reply),
                            status              |-> "ACCEPTED",
                            total_attempts      |-> attempt_num[p],
                            attempts            |-> log,
                            validation_reason   |-> "Paso todas las validaciones",
                            target_words        |-> target_words[p],
                            mode                |-> req.mode,
                            model               |-> req.model,
                            total_token_metrics |->
                                calculate_total_token_metrics(log),
                            total_cost_usd      |-> calculate_total_cost(log)])
    /\ UNCHANGED <<request, unit, original_count, critical_tokens, target_words,
                   attempt_num, best_candidate, best_similarity, llm_model,
                   llm_model_config>>

\* the loop is exhausted and best_candidate is truthy: return it
ReturnFallback(p) ==
    LET req == request[p]
    IN  /\ pc[p] = "loop"
        /\ attempt_num[p] > req.max_attempts
        /\ Truthy(best_candidate[p])
        /\ Return(p, [original_text       |-> req.input_text,
                      original_word_count |-> original_count[p],
                      final_text          |-> best_candidate[p][1],
                      final_word_count    |-> count(best_candidate[p][1]),
                      status              |-> "REJECTED_NO_VALID_CANDIDATE",
                      total_attempts      |-> req.max_attempts,
                      attempts            |-> attempts[p],
                      validation_reason   |->
                          "No cumplio validaciones en los intentos realizados",
                      target_words        |-> target_words[p],
                      mode                |-> req.mode,
                      model               |-> req.model,
                      error               |->
                          Some("Se retorna mejor candidato por similitud"),
                      total_token_metrics |->
                          calculate_total_token_metrics(attempts[p]),
                      total_cost_usd      |-> calculate_total_cost(attempts[p])])
        /\ UNCHANGED <<request, unit, locals, calls, llm_model, llm_model_config>>

\* the loop is exhausted and best_candidate is None or "": return ERROR
ReturnError(p) ==
    LET req == request[p]
    IN  /\ pc[p] = "loop"
        /\ attempt_num[p] > req.max_attempts
        /\ ~ Truthy(best_candidate[p])
        /\ Return(p, [original_text       |-> req.input_text,
                      original_word_count |-> original_count[p],
                      final_text          |-> <<>>,
                      final_word_count    |-> 0,
                      status              |-> "ERROR",
                      total_attempts      |-> req.max_attempts,
                      attempts            |-> attempts[p],
                      mode                |-> req.mode,
                      model               |-> req.model,
                      error               |->
                          Some("No se pudo generar propuestas validas"),
                      total_token_metrics |->
                          calculate_total_token_metrics(attempts[p]),
                      total_cost_usd      |-> calculate_total_cost(attempts[p])])
        /\ UNCHANGED <<request, unit, locals, calls, llm_model, llm_model_config>>

Next ==
    \E p \in Procs :
        \/ ReturnInvalid(p)
        \/ ReturnInRange(p)
        \/ BeginRetries(p)
        \/ SetModel(p)
        \/ SetModelConfig(p)
        \/ CallRewrite(p)
        \/ RewriteFails(p)
        \/ AttemptOutOfRange(p)
        \/ AttemptRejectedByHardRules(p)
        \/ AttemptRejectedBySemantic(p)
        \/ AttemptAccepted(p)
        \/ ReturnFallback(p)
        \/ ReturnError(p)

\* one orchestrate call
Spec == Init /\ [][Next]_vars

\* one orchestrate call whose steps, the collaborator calls included, each
\* complete: the code runs on, and rewrite_text returns or raises
SpecTerminating == Init /\ [][Next]_vars /\ WF_vars(Next)

\* two concurrent orchestrate calls sharing the orchestrator and its client
SpecConcurrent == InitConcurrent /\ [][Next]_vars

(***************************************************************************)
(* The validators called directly, as tests/test_validators.py calls them  *)
(***************************************************************************)

\* the texts of the tests (accented letters written without the accent) and
\* short texts with numbers, percentages and dates
TxtProductoOriginal ==
    <<"E", "l", " ", "p", "r", "o", "d", "u", "c", "t", "o", " ", "c", "u",
      "e", "s", "t", "a", " ", "$", "2", "5", ".", "9", "9", " ", "y", " ",
      "e", "l", " ", "d", "e", "s", "c", "u", "e", "n", "t", "o", " ", "e",
      "s", " ", "d", "e", "l", " ", "1", "5", "%">>

TxtProductoRewritten ==
    <<"E", "s", "t", "e", " ", "a", "r", "t", "i", "c", "u", "l", "o", " ",
      "t", "i", "e", "n", "e", " ", "u", "n", " ", "p", "r", "e", "c", "i",
      "o", " ", "d", "e", " ", "$", "2", "5", ".", "9", "9", " ", "c", "o",
      "n", " ", "1", "5", "%", " ", "d", "e", " ", "d", "e", "s", "c", "u",
      "e", "n", "t", "o">>

TxtProductoVeinte ==
    <<"E", "s", "t", "e", " ", "a", "r", "t", "i", "c", "u", "l", "o", " ",
      "t", "i", "e", "n", "e", " ", "u", "n", " ", "p", "r", "e", "c", "i",
      "o", " ", "d", "e", " ", "$", "2", "5", ".", "9", "9", " ", "c", "o",
      "n", " ", "2", "0", "%", " ", "d", "e", " ", "d", "e", "s", "c", "u",
      "e", "n", "t", "o">>

TxtJuanOriginal ==
    <<"J", "u", "a", "n", " ", "G", "a", "r", "c", "i", "a", " ", "t", "r",
      "a", "b", "a", "j", "o", " ", "c", "o", "n", " ", "O", "p", "e", "n",
      "A", "I">>

TxtJuanRewritten ==
    <<"L", "a", " ", "p", "e", "r", "s", "o", "n", "a", " ", "J", "u", "a",
      "n", " ", "G", "a", "r", "c", "i", "a", " ", "c", "o", "l", "a", "b",
      "o", "r", "o", " ", "c", "o", "n", " ", "O", "p", "e", "n", "A", "I">>

TxtJuanGarcia ==
    <<"J", "u", "a", "n", " ", "G", "a", "r", "c", "i", "a">>

TxtOpenAI ==
    <<"O", "p", "e", "n", "A", "I">>

TxtDescuento25 ==
    <<"E", "l", " ", "d", "e", "s", "c", "u", "e", "n", "t", "o", " ", "e",
      "s", " ", "d", "e", "l", " ", "2", "5", "%">>

TxtDescuento30 ==
    <<"E", "l", " ", "d", "e", "s", "c", "u", "e", "n", "t", "o", " ", "e",
      "s", " ", "d", "e", "l", " ", "3", "0", "%">>

TxtDescuento2530 ==
    <<"E", "l", " ", "d", "e", "s", "c", "u", "e", "n", "t", "o", " ", "e",
      "s", " ", "d", "e", "l", " ", "3", "0", "%", " ", "o", " ", "d", "e",
      "l", " ", "2", "5", "%">>

TxtNum1 ==
    <<"1", "2", " ", "7", "%">>

TxtNum2 ==
    <<"7", "%", " ", "1", "2", " ", "1", "2", " ", "7", "%">>

TxtNum3 ==
    <<"7", " ", "%", " ", "1", "2">>

TxtNum4 ==
    <<"7", ".", "5", "%", " ", "1", "2">>

TxtNum5 ==
    <<"1", "2", " ", "7", "%", " ", "3", ",", "5">>

TxtFecha1 ==
    <<"1", "/", "2", "/", "2", "0", "2", "4">>

TxtFecha2 ==
    <<"1", "-", "2", "-", "2", "0", "2", "4">>

TxtFecha3 ==
    <<"2", "0", "2", "4", " ", "2", " ", "1">>

\* what get_embedding may give: a vector, or None when the call raises
Embeddings ==
    {None} \cup {Some(v) : v \in {VecOrig, Vec60, Vec70, Vec65, Vec75, Vec85,
                                   VecNeg, VecZero, VecShort}}

\* the thresholds validate is called with
Thresholds == {0, 75, 85, 101}

\* the texts _check_numeric_preservation is tried on
NumericTexts ==
    {TxtDescuento25, TxtDescuento30, TxtDescuento2530, TxtNum1, TxtNum2,
     TxtNum3, TxtNum4, TxtNum5, TxtFecha1, TxtFecha2, TxtFecha3, TxtEmpty}

HardRulesCase(original, rewritten, tokens) ==
    [original |-> original, rewritten |-> rewritten,
     critical_tokens |-> tokens]

\* the (original, rewritten, critical_tokens) triples validate is tried on
HardRulesCases ==
    { HardRulesCase(TxtProductoOriginal, TxtProductoRewritten, {}),
      HardRulesCase(TxtProductoOriginal, TxtProductoVeinte, {}),
      HardRulesCase(TxtProductoOriginal, TxtProductoOriginal, {}),
      HardRulesCase(TxtJuanOriginal, TxtJuanRewritten,
                    {TxtJuanGarcia, TxtOpenAI}),
      HardRulesCase(TxtJuanOriginal, TxtJuanOriginal,
                    {TxtJuanGarcia, TxtOpenAI}),
      HardRulesCase(TxtJuanOriginal, TxtOpenAI, {TxtJuanGarcia, TxtOpenAI}),
      HardRulesCase(TxtInput, TxtJuanRewritten, {<<"U", "S", "A">>}),
      HardRulesCase(TxtInput, TxtJuanRewritten, {}),
      HardRulesCase(TxtInput, TxtOcho, {<<"U", "S", "A">>}),
      HardRulesCase(TxtInput, TxtLower, {<<"U", "S", "A">>}),
      HardRulesCase(TxtInput, TxtLower, {}),
      HardRulesCase(TxtJuanOriginal, TxtNum1, {TxtJuanGarcia}),
      HardRulesCase(TxtJuanOriginal, TxtNum1, {}) }
        \cup { HardRulesCase(o, r, {}) : o \in NumericTexts, r \in NumericTexts }

\* the state of the orchestrator, which a direct call leaves alone
orchestration ==
    <<request, pc, original_count, critical_tokens, target_words, attempt_num,
      attempts, best_candidate, best_similarity, calls, result, llm_model,
      llm_model_config>>

\* no orchestrate call is running; each run makes one direct call (the
\* validators keep no state between calls)
InitValidators ==
    /\ request = [p \in Procs |-> NoRequest]
    /\ pc = [p \in Procs |-> "off"]
    /\ InitCommon

\* SemanticValidator(llm_client or None).validate(original, rewritten,
\* threshold), the embeddings being what get_embedding gives for the texts
CallSemanticValidate ==
    /\ unit = NoUnitCall
    /\ \E has_client \in BOOLEAN, emb1 \in Embeddings, emb2 \in Embeddings,
          threshold \in Thresholds :
          unit' = [op |-> "SemanticValidator.validate",
                   has_client |-> has_client, emb1 |-> emb1, emb2 |-> emb2,
                   threshold |-> threshold,
                   out |-> SemanticValidate(has_client, emb1, emb2, threshold)]
    /\ UNCHANGED orchestration

\* HardRulesValidator().validate(original, rewritten, critical_tokens)
CallHardRulesValidate ==
    /\ unit = NoUnitCall
    /\ \E c \in HardRulesCases :
          unit' = [op |-> "HardRulesValidator.validate",
                   original |-> c.original, rewritten |-> c.rewritten,
                   critical_tokens |-> c.critical_tokens,
                   out |-> HardRulesValidate(c.original, c.rewritten,
                                             c.critical_tokens)]
    /\ UNCHANGED orchestration

\* HardRulesValidator()._check_numeric_preservation(original, rewritten)
CallCheckNumericPreservation ==
    /\ unit = NoUnitCall
    /\ \E o \in NumericTexts, r \in NumericTexts :
          unit' = [op |-> "HardRulesValidator._check_numeric_preservation",
                   original |-> o, rewritten |-> r,
                   out |-> check_numeric_preservation(o, r)]
    /\ UNCHANGED orchestration

NextValidators ==
    \/ CallSemanticValidate
    \/ CallHardRulesValidate
    \/ CallCheckNumericPreservation

\* the validators called directly
SpecValidators == InitValidators /\ [][NextValidators]_vars

(***************************************************************************)
(* The other components called directly, as tests/test_word_counter.py and *)
(* tests/test_orchestrator.py call them                                     *)
(***************************************************************************)

\* bound on the word counts _calculate_target_words is tried on, and on the
\* size of the delta _build_prompt is given
MaxWords == 6

\* the texts of the tests (accented and inverted punctuation characters
\* written in ASCII) and texts with surrounding and repeated whitespace
TxtGatoCasa ==
    <<"E", "l", " ", "g", "a", "t", "o", " ", "e", "s", "t", "a", " ", "e",
      "n", " ", "l", "a", " ", "c", "a", "s", "a">>

TxtHolaMundo ==
    <<"H", "o", "l", "a", ",", " ", "m", "u", "n", "d", "o", "!", " ", "?",
      "C", "o", "m", "o", " ", "e", "s", "t", "a", "s", "?">>

TxtSpaces ==
    <<" ", " ", " ">>

TxtGatosPerros ==
    <<"T", "e", "n", "g", "o", " ", "3", " ", "g", "a", "t", "o", "s", " ",
      "y", " ", "5", " ", "p", "e", "r", "r", "o", "s">>

TxtPadded ==
    <<" ", " ", "H", "o", "l", "a", " ", "\t", " ", "m", "u", "n", "d", "o",
      "\n">>

TxtDatos ==
    <<"E", "n", " ", "2", "0", "2", "4", ",", " ", "e", "l", " ", "8", "0",
      "%", " ", "d", "e", " ", "l", "o", "s", " ", "d", "a", "t", "o", "s",
      " ", "s", "e", " ", "p", "r", "o", "c", "e", "s", "o", " ", "e", "l",
      " ", "1", "5", "/", "0", "2", "/", "2", "0", "2", "4">>

TxtSiglas ==
    <<"L", "a", " ", "O", "N", "U", " ", "y", " ", "l", "a", " ", "O", "N",
      "U", ":", " ", "3", ",", "5", " ", "y", " ", "3", ",", "5">>

\* words that occur inside earlier words
TxtAbAB ==
    <<"a", "b", " ", "a", " ", "b", " ", "a", "b">>

\* the texts WordCounter.count and get_word_boundaries are tried on
CountTexts ==
    {TxtEmpty, TxtBlank, TxtSpaces, TxtGatoCasa, TxtHolaMundo, TxtGatosPerros,
     TxtPadded, TxtInput, TxtDatos, TxtFecha3, TxtNum2, TxtAbAB}

\* the texts WordCounter.extract_critical_tokens is tried on
CriticalTexts ==
    {TxtEmpty, TxtDatos, TxtSiglas, TxtInput, TxtGatosPerros, TxtGatoCasa,
     TxtProductoOriginal, TxtJuanOriginal, TxtNum2, TxtNum4, TxtFecha1,
     TxtFecha3}

\* (original_count, min_words, max_words) with 1 <= min_words <= max_words:
\* all small triples and those of test_calculate_target_words
TargetWordsCases ==
    { <<c, lo, hi>> : c \in 0..MaxWords, lo \in 1..MaxWords, hi \in 1..MaxWords }
        \cup { <<5, 10, 50>>, <<100, 10, 50>>, <<30, 10, 50>> }

\* vectors orthogonal to VecOrig and to Vec60, and the zero vector of VecShort
VecOrth   == <<0, 1, 0, 0, 0>>
VecOrth60 == <<4, -3, 0, 0, 0>>
VecZero2  == <<0, 0>>

\* the vectors _cosine_similarity is tried on
CosineVectors ==
    {VecOrig, Vec60, Vec70, Vec65, Vec75, Vec85, VecNeg, VecZero, VecOrth,
     VecOrth60, VecShort, VecZero2}

\* the delta _build_prompt is given
Deltas == {None} \cup {Some(d) : d \in (0 - MaxWords)..MaxWords}

\* what an attempt may carry as token_metrics: nothing, or the usage of a
\* completion with the model id the client had
UsageOptions ==
    { None,
      Some(TokenMetrics(Usage(100, 0, 50), "gpt-4o-mini",
                        ModelConfig("gpt-4o-mini"))),
      Some(TokenMetrics(Usage(80, 0, 40), "gpt-4o", ModelConfig("gpt-4o"))),
      Some(TokenMetrics(Usage(0, 0, 0), "gpt-4o", ModelConfig("gpt-4o"))),
      Some(TokenMetrics(Usage(7, 0, 3), "", ModelConfig(""))),
      Some(TokenMetrics(Usage(100, 20, 50), "gpt-4o-mini",
                        ModelConfig("gpt-4o-mini"))) }

\* the attempt logs _calculate_total_token_metrics is tried on: up to
\* MaxAttempts records, told apart by their token_metrics only
UsageLogs ==
    UNION { { [i \in 1..n |->
                 AttemptRecord(i, <<>>, 0, "OUT_OF_RANGE", 0, None, TRUE, None,
                               u[i])] : u \in [1..n -> UsageOptions] } :
            n \in 0..MaxAttempts }

\* stop words only
TxtElLa ==
    <<"E", "l", " ", "l", "a">>

\* the texts _check_no_new_facts is tried on: TxtGatosPerros has five tokens
\* that are not stop words, of which TxtInput has none and adds two, and
\* TxtGatoCasa has none and adds three
NewFactsTexts ==
    {TxtEmpty, TxtElLa, TxtGatosPerros, TxtGatoCasa, TxtInput, TxtLa, TxtGato,
     TxtLower, TxtNum2, TxtHolaMundo}

\* WordCounter().count(text)
CallCount ==
    /\ unit = NoUnitCall
    /\ \E text \in CountTexts :
          unit' = [op |-> "WordCounter.count", text |-> text,
                   out |-> count(text)]
    /\ UNCHANGED orchestration

\* WordCounter().extract_critical_tokens(text)
CallExtractCriticalTokens ==
    /\ unit = NoUnitCall
    /\ \E text \in CriticalTexts :
          unit' = [op |-> "WordCounter.extract_critical_tokens",
                   text |-> text, out |-> extract_critical_tokens(text)]
    /\ UNCHANGED orchestration

\* orchestrator._calculate_target_words(original_count, min_words,
\* max_words), and the same call on its own result
CallCalculateTargetWords ==
    /\ unit = NoUnitCall
    /\ \E c \in TargetWordsCases :
          /\ c[2] <= c[3]
          /\ unit' = [op |-> "RewriteOrchestrator._calculate_target_words",
                      original_count |-> c[1], min_words |-> c[2],
                      max_words |-> c[3],
                      out |-> calculate_target_words(c[1], c[2], c[3]),
                      again |-> calculate_target_words(
                                    calculate_target_words(c[1], c[2], c[3]),
                                    c[2], c[3])]
    /\ UNCHANGED orchestration

\* SemanticValidator._cosine_similarity(vec1, vec2) on vectors of one length
CallCosineSimilarity ==
    /\ unit = NoUnitCall
    /\ \E vec1 \in CosineVectors, vec2 \in CosineVectors :
          /\ Len(vec1) = Len(vec2)
          /\ unit' = [op |-> "SemanticValidator._cosine_similarity",
                      vec1 |-> vec1, vec2 |-> vec2,
                      out |-> cosine_similarity(vec1, vec2)]
    /\ UNCHANGED orchestration

\* LLMClient._build_prompt(..., delta, ...)
CallBuildPrompt ==
    /\ unit = NoUnitCall
    /\ \E delta \in Deltas :
          unit' = [op |-> "LLMClient._build_prompt", delta |-> delta,
                   out |-> build_prompt(delta)]
    /\ UNCHANGED orchestration

\* orchestrator._calculate_total_token_metrics(attempts)
CallCalculateTotalTokenMetrics ==
    /\ unit = NoUnitCall
    /\ \E log \in UsageLogs :
          unit' = [op |-> "RewriteOrchestrator._calculate_total_token_metrics",
                   attempts |-> log,
                   out |-> calculate_total_token_metrics(log)]
    /\ UNCHANGED orchestration

\* WordCounter().get_word_boundaries(text)
CallGetWordBoundaries ==
    /\ unit = NoUnitCall
    /\ \E text \in CountTexts :
          unit' = [op |-> "WordCounter.get_word_boundaries", text |-> text,
                   out |-> get_word_boundaries(text)]
    /\ UNCHANGED orchestration

\* HardRulesValidator()._check_no_new_facts(original, rewritten)
CallCheckNoNewFacts ==
    /\ unit = NoUnitCall
    /\ \E o \in NewFactsTexts, r \in NewFactsTexts :
          unit' = [op |-> "HardRulesValidator._check_no_new_facts",
                   original |-> o, rewritten |-> r,
                   out |-> check_no_new_facts(o, r)]
    /\ UNCHANGED orchestration

NextComponents ==
    \/ CallCount
    \/ CallExtractCriticalTokens
    \/ CallCalculateTargetWords
    \/ CallCosineSimilarity
    \/ CallBuildPrompt
    \/ CallCalculateTotalTokenMetrics
    \/ CallGetWordBoundaries
    \/ CallCheckNoNewFacts

\* the components called directly
SpecComponents == InitValidators /\ [][NextComponents]_vars

(***************************************************************************)
(* Properties                                                              *)
(***************************************************************************)

\* the rewrite_text calls thread p has made
RewriteCalls(p) == SelectSeq(calls[p], LAMBDA c : c.op = "rewrite_text")

\* the calls of operation op thread p has made for attempt n
CallsOf(p, op, n) ==
    SelectSeq(calls[p], LAMBDA c : c.op = op /\ c.attempt_number = n)

\* the request is invalid, in the claim's terms
InvalidRequest(req) ==
    \/ req.input_text = <<>>
    \/ req.min_words < 1
    \/ req.min_words > req.max_words
    \/ req.max_attempts < 1

\* thread p has returned from a valid request whose text was out of range
ReturnedFromRetries(p) ==
    /\ pc[p] = "done"
    /\ ~ InvalidRequest(request[p])
    /\ ~ (request[p].min_words <= count(request[p].input_text)
          /\ count(request[p].input_text) <= request[p].max_words)

\* C1: a valid request whose input word count is within [min_words,
\* max_words] returns ACCEPTED with total_attempts = 0, an empty attempt log
\* and final_text = input_text, and rewrite_text is never called.
C1_InRangeReturnsInput ==
    \A p \in Procs :
        ( /\ pc[p] = "done"
          /\ ~ InvalidRequest(request[p])
          /\ request[p].min_words <= count(request[p].input_text)
          /\ count(request[p].input_text) <= request[p].max_words )
        => /\ result[p] # None
           /\ result[p][1].status = "ACCEPTED"
           /\ result[p][1].total_attempts = 0
           /\ result[p][1].attempts = <<>>
           /\ result[p][1].final_text = request[p].input_text
           /\ RewriteCalls(p) = <<>>

C1_Witness ==
    \E p \in Procs :
        /\ pc[p] = "done"
        /\ ~ InvalidRequest(request[p])
        /\ request[p].min_words <= count(request[p].input_text)
        /\ count(request[p].input_text) <= request[p].max_words
        /\ result[p][1].final_text = TxtInput

\* C2: an invalid request (empty text, min_words < 1, min_words > max_words
\* or max_attempts < 1) returns ERROR with total_attempts = 0, an empty
\* attempt log and empty final_text, and no collaborator is called.
C2_InvalidRequestIsError ==
    \A p \in Procs :
        (pc[p] = "done" /\ InvalidRequest(request[p]))
        => /\ result[p] # None
           /\ result[p][1].status = "ERROR"
           /\ result[p][1].total_attempts = 0
           /\ result[p][1].attempts = <<>>
           /\ result[p][1].final_text = <<>>
           /\ calls[p] = <<>>

C2_Witness ==
    \E p \in Procs :
        /\ pc[p] = "done"
        /\ request[p].input_text # <<>>
        /\ request[p].min_words < 1
        /\ request[p].max_attempts >= 1
        /\ result[p][1].status = "ERROR"

\* C3: no exception leaves orchestrate, whatever rewrite and embedding calls
\* fail: a call is always at a control point of orchestrate, and once it has
\* returned its Result has status ACCEPTED, REJECTED_NO_VALID_CANDIDATE or
\* ERROR.
C3_NoExceptionEscapes ==
    \A p \in Procs :
        /\ pc[p] \in {"off", "start", "set_model", "set_config", "loop",
                      "rewriting", "done"}
        /\ pc[p] = "done"
           => /\ result[p] # None
              /\ result[p][1].status \in
                    {"ACCEPTED", "REJECTED_NO_VALID_CANDIDATE", "ERROR"}

\* a call that returned after a rewrite call failed in one attempt and an
\* embedding call failed in another
C3_Witness ==
    \E p \in Procs :
        /\ pc[p] = "done"
        /\ \E i \in 1..Len(attempts[p]) :
              /\ attempts[p][i].error_message \in {Some(m) : m \in FailureMessages}
              /\ CallsOf(p, "semantic_validate", i) = <<>>
        /\ \E i \in 1..Len(attempts[p]) :
              /\ Len(CallsOf(p, "get_embedding", i)) = 1
              /\ CallsOf(p, "semantic_validate", i)[1].passed
              /\ CallsOf(p, "semantic_validate", i)[1].similarity = 0

\* C4: with two concurrent calls whose requests name different models, every
\* rewrite call made for a request uses that request's model and pricing
\* profile.
C4_RewriteUsesOwnModel ==
    (request[1].model # request[2].model)
    => \A p \in Procs :
          /\ \A i \in 1..Len(RewriteCalls(p)) :
                RewriteCalls(p)[i].model = request[p].model
          /\ \A i \in 1..Len(attempts[p]) :
                attempts[p][i].token_metrics # None
                => LET tm == attempts[p][i].token_metrics[1]
                       own == AVAILABLE_MODELS[request[p].model]
                   IN  /\ tm.model = request[p].model
                       /\ tm.cost_usd = tm.input_tokens * own.input
                                        + tm.cached_tokens * own.cached
                                        + tm.output_tokens * own.output

\* C5: an ACCEPTED record is the last entry of the log, the call has
\* returned with that attempt's index as total_attempts and that candidate's
\* text and count as final_text and final_word_count, and the rewrite calls
\* made are those of attempts 1..index: none follows the acceptance.
C5_AcceptedReturnsAtOnce ==
    \A p \in Procs :
        \A i \in 1..Len(attempts[p]) :
            attempts[p][i].status = "ACCEPTED"
            => /\ i = Len(attempts[p])
               /\ pc[p] = "done"
               /\ result[p] # None
               /\ result[p][1].status = "ACCEPTED"
               /\ result[p][1].total_attempts = attempts[p][i].attempt_number
               /\ attempts[p][i].attempt_number = i
               /\ result[p][1].attempts = attempts[p]
               /\ result[p][1].final_text = attempts[p][i].proposed_text
               /\ result[p][1].final_word_count = attempts[p][i].word_count
               /\ Len(RewriteCalls(p)) = i

C5_Witness ==
    \E p \in Procs :
        /\ pc[p] = "done"
        /\ Len(attempts[p]) = 2
        /\ request[p].max_attempts = 3
        /\ attempts[p][2].status = "ACCEPTED"

\* C6: an attempt is recorded ACCEPTED only if its candidate's word count is
\* within [min_words, max_words], the hard rules validator returned passed
\* for it and the semantic validator returned passed for it against the
\* mode's threshold.
C6_AcceptedPassedBothGates ==
    \A p \in Procs :
        \A i \in 1..Len(attempts[p]) :
            attempts[p][i].status = "ACCEPTED"
            => LET rec  == attempts[p][i]
                   hard == CallsOf(p, "hard_rules_validate", i)
                   sem  == CallsOf(p, "semantic_validate", i)
               IN  /\ rec.word_count = count(rec.proposed_text)
                   /\ request[p].min_words <= rec.word_count
                   /\ rec.word_count <= request[p].max_words
                   /\ Len(hard) = 1
                   /\ hard[1].rewritten_text = rec.proposed_text
                   /\ hard[1].passed
                   /\ Len(sem) = 1
                   /\ sem[1].rewritten_text = rec.proposed_text
                   /\ sem[1].threshold =
                          (IF request[p].mode = STRICT THEN 85 ELSE 75)
                   /\ sem[1].passed

C6_Witness ==
    \E p \in Procs :
        /\ pc[p] = "done"
        /\ request[p].mode = STRICT
        /\ attempts[p] # <<>>
        /\ attempts[p][Len(attempts[p])].status = "ACCEPTED"
        /\ attempts[p][Len(attempts[p])].similarity_score = Some(85)

\* C7: every critical token extracted from the input text is a substring of
\* the text of any candidate recorded ACCEPTED, and an in-range candidate
\* missing a critical token is recorded REJECTED_BY_HARD_RULES.
C7_CriticalTokensPreserved ==
    \A p \in Procs :
        \A i \in 1..Len(attempts[p]) :
            LET rec    == attempts[p][i]
                tokens == extract_critical_tokens(request[p].input_text)
                all_in == \A t \in tokens :
                              \E k \in 1..Len(rec.proposed_text) :
                                  /\ k + Len(t) - 1 <= Len(rec.proposed_text)
                                  /\ SubSeq(rec.proposed_text, k, k + Len(t) - 1) = t
            IN  /\ rec.status = "ACCEPTED" => all_in
                /\ ( /\ CallsOf(p, "semantic_validate", i) # <<>>
                     /\ request[p].min_words <= count(rec.proposed_text)
                     /\ count(rec.proposed_text) <= request[p].max_words
                     /\ ~ all_in )
                   => rec.status = "REJECTED_BY_HARD_RULES"

\* the input has critical tokens; a candidate that kept the number but
\* lower-cased the acronym was rejected, a later one that kept both accepted
C7_Witness ==
    \E p \in Procs :
        /\ pc[p] = "done"
        /\ Len(attempts[p]) = 2
        /\ extract_critical_tokens(request[p].input_text)
               = {<<"U","S","A">>, <<"7","%">>}
        /\ attempts[p][1].proposed_text = TxtLower
        /\ attempts[p][1].status = "REJECTED_BY_HARD_RULES"
        /\ attempts[p][1].error_message = Some(ReasonCritical)
        /\ attempts[p][2].status = "ACCEPTED"

\* C8: when the loop exhausts without acceptance, if a fallback candidate
\* exists the result is REJECTED_NO_VALID_CANDIDATE with the fallback text
\* and its word count, otherwise ERROR with empty final_text and count 0.
C8_ExhaustionReturnsFallback ==
    \A p \in Procs :
        (ReturnedFromRetries(p) /\ result[p][1].status # "ACCEPTED")
        => IF best_candidate[p] # None
           THEN /\ result[p][1].status = "REJECTED_NO_VALID_CANDIDATE"
                /\ result[p][1].final_text = best_candidate[p][1]
                /\ result[p][1].final_word_count = count(best_candidate[p][1])
           ELSE /\ result[p][1].status = "ERROR"
                /\ result[p][1].final_text = <<>>
                /\ result[p][1].final_word_count = 0

\* C9: for a valid, out-of-range request, exhaustion ends in ERROR only when
\* every rewrite call failed; if some rewrite call returned a candidate and
\* none was accepted, the result is REJECTED_NO_VALID_CANDIDATE.
C9_ErrorOnlyIfEveryRewriteFailed ==
    \A p \in Procs :
        ReturnedFromRetries(p)
        => LET returned == {i \in 1..Len(attempts[p]) :
                               CallsOf(p, "semantic_validate", i) # <<>>}
           IN  /\ result[p][1].status = "ERROR" => returned = {}
               /\ (returned # {} /\ result[p][1].status # "ACCEPTED")
                  => result[p][1].status = "REJECTED_NO_VALID_CANDIDATE"

\* C10: in every Result, final_text is empty if and only if status is ERROR.
C10_EmptyTextIffError ==
    \A p \in Procs :
        pc[p] = "done"
        => (result[p][1].final_text = <<>> <=> result[p][1].status = "ERROR")

\* an exhausted call whose last fallback was the empty text, returned as ERROR
C10_Witness ==
    \E p \in Procs :
        /\ pc[p] = "done"
        /\ best_candidate[p] = Some(<<>>)
        /\ result[p][1].status = "ERROR"
        /\ result[p][1].final_text = <<>>

\* the record of attempt i of thread p is that of a failed rewrite call: it
\* carries the message of the exception
IsFailureRecord(rec) ==
    rec.error_message \in {Some(m) : m \in FailureMessages}

C12_FailedRewriteIsRecordedAndSkipped ==
    [][\A p \in Procs :
          ( /\ pc[p] = "rewriting"
            /\ Len(attempts'[p]) = Len(attempts[p]) + 1
            /\ IsFailureRecord(attempts'[p][Len(attempts'[p])]) )
          => LET rec == attempts'[p][Len(attempts'[p])]
             IN  /\ rec.attempt_number = attempt_num[p]
                 /\ rec.status = "OUT_OF_RANGE"
                 /\ rec.proposed_text = <<>>
                 /\ rec.word_count = 0
                 /\ best_candidate'[p] = best_candidate[p]
                 /\ best_similarity'[p] = best_similarity[p]
                 /\ calls'[p] = calls[p]
                 /\ CallsOf(p, "semantic_validate", attempt_num[p]) = <<>>
                 /\ CallsOf(p, "hard_rules_validate", attempt_num[p]) = <<>>
                 /\ CallsOf(p, "get_embedding", attempt_num[p]) = <<>>
                 /\ result'[p] = None
                 /\ pc'[p] = "loop"
                 /\ attempt_num'[p] = attempt_num[p] + 1
                 /\ attempt_num[p] <= request[p].max_attempts
      ]_vars

\* the second rewrite call failed after a semantically rejected first
\* candidate: the fallback and its similarity are still those of attempt 1
C12_Witness ==
    \E p \in Procs :
        /\ pc[p] = "loop"
        /\ attempt_num[p] = 3
        /\ Len(attempts[p]) = 2
        /\ attempts[p][1].status = "REJECTED_BY_SEMANTIC_SIMILARITY"
        /\ IsFailureRecord(attempts[p][2])
        /\ attempts[p][2].status = "OUT_OF_RANGE"
        /\ best_candidate[p] = Some(attempts[p][1].proposed_text)
        /\ best_similarity[p] = 70
        /\ CallsOf(p, "semantic_validate", 2) = <<>>

\* C13: a candidate recorded OUT_OF_RANGE or REJECTED_BY_HARD_RULES is the
\* fallback from the moment it is recorded, whatever the fallback and the
\* similarities were; and with a 3-word input, min = 5, max = 15 and
\* max_attempts = 2, a first candidate of 20 words is recorded OUT_OF_RANGE
\* and becomes the fallback, and a second candidate of 10 words that passes
\* both gates is ACCEPTED with total_attempts = 2 and final_word_count = 10.
C13_LatestRejectedReplacesFallback ==
    \A p \in Procs :
        /\ attempts[p] # <<>>
           => LET last == attempts[p][Len(attempts[p])]
              IN  ( \/ last.status = "OUT_OF_RANGE" /\ ~ IsFailureRecord(last)
                    \/ last.status = "REJECTED_BY_HARD_RULES" )
                  => best_candidate[p] = Some(last.proposed_text)
        /\ ( /\ count(request[p].input_text) = 3
             /\ request[p].min_words = 5
             /\ request[p].max_words = 15
             /\ request[p].max_attempts = 2
             /\ attempts[p] # <<>>
             /\ ~ IsFailureRecord(attempts[p][1])
             /\ count(attempts[p][1].proposed_text) = 20 )
           => /\ attempts[p][1].status = "OUT_OF_RANGE"
              /\ Len(attempts[p]) = 1
                 => best_candidate[p] = Some(attempts[p][1].proposed_text)
              /\ ( /\ Len(attempts[p]) = 2
                   /\ ~ IsFailureRecord(attempts[p][2])
                   /\ count(attempts[p][2].proposed_text) = 10
                   /\ CallsOf(p, "hard_rules_validate", 2) # <<>>
                   /\ CallsOf(p, "hard_rules_validate", 2)[1].passed
                   /\ CallsOf(p, "semantic_validate", 2)[1].passed )
                 => /\ pc[p] = "done"
                    /\ attempts[p][2].status = "ACCEPTED"
                    /\ result[p][1].status = "ACCEPTED"
                    /\ result[p][1].total_attempts = 2
                    /\ result[p][1].final_word_count = 10

\* the claim's example, run to its end
C13_Witness ==
    \E p \in Procs :
        /\ pc[p] = "done"
        /\ count(request[p].input_text) = 3
        /\ request[p].min_words = 5
        /\ request[p].max_words = 15
        /\ request[p].max_attempts = 2
        /\ Len(attempts[p]) = 2
        /\ attempts[p][1].word_count = 20
        /\ attempts[p][1].status = "OUT_OF_RANGE"
        /\ best_candidate[p] = Some(attempts[p][1].proposed_text)
        /\ attempts[p][2].word_count = 10
        /\ result[p][1].status = "ACCEPTED"
        /\ result[p][1].total_attempts = 2

\* the records of log that carry a similarity score
Scored(log) == {i \in 1..Len(log) : log[i].similarity_score # None}

\* the earliest record of log with the highest similarity score
BestBySimilarity(log) ==
    CHOOSE i \in Scored(log) :
        \A j \in Scored(log) :
            \/ log[j].similarity_score[1] < log[i].similarity_score[1]
            \/ log[j].similarity_score[1] = log[i].similarity_score[1] /\ i <= j

\* C14: when each of the max_attempts candidates is in range, passes the
\* hard rules and fails the semantic gate, the result is
\* REJECTED_NO_VALID_CANDIDATE and final_text is the earliest candidate with
\* the highest similarity; similarities 0.60, 0.70, 0.65 against threshold
\* 0.75 return the second attempt's text.
C14_AllSemanticRejectedReturnsBest ==
    \A p \in Procs :
        ( /\ ReturnedFromRetries(p)
          /\ Len(attempts[p]) = request[p].max_attempts
          /\ \A i \in 1..Len(attempts[p]) :
                attempts[p][i].status = "REJECTED_BY_SEMANTIC_SIMILARITY" )
        => /\ result[p][1].status = "REJECTED_NO_VALID_CANDIDATE"
           /\ result[p][1].final_text =
                  attempts[p][BestBySimilarity(attempts[p])].proposed_text
           /\ ( /\ request[p].mode = BALANCED
                /\ [i \in 1..Len(attempts[p]) |->
                       attempts[p][i].similarity_score] =
                          <<Some(60), Some(70), Some(65)>> )
              => result[p][1].final_text = attempts[p][2].proposed_text

\* C15: whenever the result is REJECTED_NO_VALID_CANDIDATE, final_text is
\* the text of a candidate of the attempt log whose similarity score is the
\* highest among the candidates recorded.
C15_FallbackIsBestBySimilarity ==
    \A p \in Procs :
        (pc[p] = "done" /\ result[p][1].status = "REJECTED_NO_VALID_CANDIDATE")
        => LET log == result[p][1].attempts
           IN  \E i \in Scored(log) :
                  /\ log[i].proposed_text = result[p][1].final_text
                  /\ \A j \in Scored(log) :
                        log[j].similarity_score[1] <= log[i].similarity_score[1]

\* the embedding call raised, or the vectors cannot be compared
EmbeddingFailed(c) ==
    c.emb1 = None \/ c.emb2 = None \/ Len(c.emb1[1]) # Len(c.emb2[1])

\* C16: when an embedding call fails or the two vectors differ in length,
\* the semantic validation of that attempt returns passed with similarity
\* 0.0 and orchestrate goes on: the attempt is recorded with similarity 0.0,
\* and if its candidate is in range and passes the hard rules it is recorded
\* ACCEPTED and returned, in STRICT and in BALANCED mode alike.
C16_EmbeddingFailureFailsOpen ==
    \A p \in Procs :
        \A i \in 1..Len(attempts[p]) :
            LET sem  == CallsOf(p, "semantic_validate", i)
                hard == CallsOf(p, "hard_rules_validate", i)
                rec  == attempts[p][i]
            IN  (sem # <<>> /\ EmbeddingFailed(sem[1]))
                => /\ sem[1].passed
                   /\ sem[1].similarity = 0
                   /\ rec.similarity_score = Some(0)
                   /\ ( /\ request[p].min_words <= count(rec.proposed_text)
                        /\ count(rec.proposed_text) <= request[p].max_words
                        /\ hard # <<>>
                        /\ hard[1].passed )
                      => /\ rec.status = "ACCEPTED"
                         /\ pc[p] = "done"
                         /\ result[p][1].status = "ACCEPTED"
                         /\ result[p][1].final_text = rec.proposed_text

\* a STRICT request whose candidate was accepted with similarity 0.0 after
\* the embedding call raised
C16_Witness ==
    \E p \in Procs :
        /\ pc[p] = "done"
        /\ request[p].mode = STRICT
        /\ attempts[p] # <<>>
        /\ CallsOf(p, "semantic_validate", Len(attempts[p]))[1].emb1 = None
        /\ attempts[p][Len(attempts[p])].status = "ACCEPTED"
        /\ attempts[p][Len(attempts[p])].similarity_score = Some(0)

\* C17: when both embeddings arrive and have the same length, the semantic
\* validation orchestrate runs uses threshold 0.85 for a STRICT request and
\* 0.75 for a BALANCED one, and passes if and only if the cosine similarity
\* is at least the threshold.
C17_SemanticGateIsThreshold ==
    \A p \in Procs :
        \A k \in 1..Len(calls[p]) :
            LET c == calls[p][k]
            IN  (c.op = "semantic_validate" /\ ~ EmbeddingFailed(c))
                => /\ c.threshold = (IF request[p].mode = STRICT THEN 85 ELSE 75)
                   /\ c.similarity = cosine_similarity(c.emb1[1], c.emb2[1])
                   /\ c.passed <=> c.similarity >= c.threshold

\* a BALANCED request whose candidate scored exactly 0.75 and was accepted
C17_Witness ==
    \E p \in Procs :
        /\ pc[p] = "done"
        /\ request[p].mode = BALANCED
        /\ attempts[p] # <<>>
        /\ ~ EmbeddingFailed(CallsOf(p, "semantic_validate", Len(attempts[p]))[1])
        /\ CallsOf(p, "semantic_validate", Len(attempts[p]))[1].similarity = 75
        /\ CallsOf(p, "semantic_validate", Len(attempts[p]))[1].passed
        /\ attempts[p][Len(attempts[p])].status = "ACCEPTED"

\* C18: with no embedding collaborator configured,
\* SemanticValidator.validate returns passed with similarity 1.0 whatever
\* the texts (their embeddings) and the threshold are.
C18_NoClientAlwaysPasses ==
    (unit.op = "SemanticValidator.validate" /\ ~ unit.has_client)
    => /\ unit.out.passed
       /\ unit.out.similarity = 100
       /\ unit.out.reason = ""

\* a validator without client asked for a threshold above 1.0
C18_Witness ==
    /\ unit.op = "SemanticValidator.validate"
    /\ ~ unit.has_client
    /\ unit.threshold = 101
    /\ unit.emb2 = Some(VecNeg)
    /\ unit.out.passed

\* C19: HardRulesValidator.validate returns passed for a rewrite that
\* retains every number and percentage of the original and literally
\* contains every supplied critical token, as for the tests' pairs (the
\* product text with $25.99 and 15% and no critical tokens; the Juan Garcia
\* text with critical tokens "Juan Garcia" and "OpenAI").
C19_PreservingRewritePasses ==
    ( /\ unit.op = "HardRulesValidator.validate"
      /\ \A cls \in {"decimal", "percent", "date", "integer"} :
            FindAll(cls, unit.original) \subseteq FindAll(cls, unit.rewritten)
      /\ \A t \in unit.critical_tokens : Contains(unit.rewritten, t) )
    => unit.out.passed

\* some match of a numeric class in the original is not among the
\* candidate's matches of that class
MissingNumber(original, candidate) ==
    \E cls \in {"decimal", "percent", "date", "integer"} :
        \E m \in FindAll(cls, original) : m \notin FindAll(cls, candidate)

\* C20: validate fails, with the numeric reason, whenever a decimal,
\* percentage, date or bare integer of the original is absent from the
\* candidate's matches of the same class ("25%" rewritten as "30%"); the
\* numeric check fails in no other case: numbers only the candidate has, and
\* another order or multiplicity, leave it passing.
C20_NumericCheckIsSetInclusion ==
    /\ unit.op = "HardRulesValidator.validate"
       => /\ MissingNumber(unit.original, unit.rewritten)
             => /\ ~ unit.out.passed
                /\ unit.out.reason = ReasonNumeric
          /\ (unit.original = TxtDescuento25 /\ unit.rewritten = TxtDescuento30)
             => ~ unit.out.passed
    /\ unit.op = "HardRulesValidator._check_numeric_preservation"
       => /\ unit.out <=> ~ MissingNumber(unit.original, unit.rewritten)
          /\ (unit.original = TxtDescuento25 /\ unit.rewritten = TxtDescuento2530)
             => unit.out
          /\ (unit.original = TxtNum1 /\ unit.rewritten = TxtNum2) => unit.out
          /\ (unit.original = TxtNum2 /\ unit.rewritten = TxtNum1) => unit.out
          /\ (unit.original = TxtNum1 /\ unit.rewritten = TxtNum5) => unit.out
          /\ (unit.original = TxtNum1 /\ unit.rewritten = TxtNum3) => ~ unit.out
          /\ (unit.original = TxtFecha1 /\ unit.rewritten = TxtFecha3)
             => ~ unit.out
          /\ (unit.original = TxtFecha3 /\ unit.rewritten = TxtFecha1)
             => unit.out

\* "25%" rewritten as "30%": validate fails on the numeric rule
C20_Witness ==
    /\ unit.op = "HardRulesValidator.validate"
    /\ unit.original = TxtDescuento25
    /\ unit.rewritten = TxtDescuento30
    /\ ~ unit.out.passed
    /\ unit.out.reason = ReasonNumeric

\* the records of log that carry usage
WithUsage(log) == {i \in 1..Len(log) : log[i].token_metrics # None}

\* the sum of field fld over the usage of the first n records of log
RECURSIVE UsageTotal(_, _, _)
UsageTotal(log, fld, n) ==
    IF n = 0
    THEN 0
    ELSE UsageTotal(log, fld, n - 1)
            + (IF log[n].token_metrics # None
               THEN log[n].token_metrics[1][fld]
               ELSE 0)

\* the model id of the first record of log whose usage has a non-empty one
FirstModelId(log) ==
    LET named == {i \in WithUsage(log) : log[i].token_metrics[1].model # ""}
    IN  IF named = {}
        THEN ""
        ELSE log[CHOOSE i \in named : \A j \in named : i <= j]
                 .token_metrics[1].model

\* the token counts of the aggregate are the sums over the log, its model id
\* is the first non-empty one, and usage (100,50), (80,40) and a failed call
\* aggregate to (180,90)
AggregateTokensAndModel(log, out) ==
    /\ out # None
       => /\ out[1].input_tokens = UsageTotal(log, "input_tokens", Len(log))
          /\ out[1].cached_tokens = UsageTotal(log, "cached_tokens", Len(log))
          /\ out[1].output_tokens = UsageTotal(log, "output_tokens", Len(log))
          /\ out[1].model = FirstModelId(log)
    /\ ( /\ Len(log) = 3
         /\ WithUsage(log) = {1, 2}
         /\ log[1].token_metrics[1].input_tokens = 100
         /\ log[1].token_metrics[1].output_tokens = 50
         /\ log[2].token_metrics[1].input_tokens = 80
         /\ log[2].token_metrics[1].output_tokens = 40 )
       => /\ out # None
          /\ out[1].input_tokens = 180
          /\ out[1].output_tokens = 90

\* C21 as stated: the aggregated usage is the field-wise sum of the input,
\* cached and output token counts and of the cost over the attempts that
\* carry usage, and its model id is that of the first attempt whose usage has
\* a non-empty one.
C21_AggregateIsExactSum ==
    unit.op = "RewriteOrchestrator._calculate_total_token_metrics"
    => /\ AggregateTokensAndModel(unit.attempts, unit.out)
       /\ unit.out # None
          => unit.out[1].cost_usd =
                 UsageTotal(unit.attempts, "cost_usd", Len(unit.attempts))

\* C21, amended: the aggregated usage, when there is one, carries the sums of
\* the input, cached and output token counts over the attempts that carry
\* usage, the sum of their costs rounded to six decimals (a whole number of
\* micro-dollars, at most half a micro-dollar from the sum), and the model id
\* of the first attempt whose usage has a non-empty one.
C21_AggregateIsRoundedSum ==
    unit.op = "RewriteOrchestrator._calculate_total_token_metrics"
    => /\ AggregateTokensAndModel(unit.attempts, unit.out)
       /\ unit.out # None
          => LET total == UsageTotal(unit.attempts, "cost_usd",
                                     Len(unit.attempts))
                 cost  == unit.out[1].cost_usd
             IN  /\ cost % 1000 = 0
                 /\ 2 * (cost - total) <= 1000
                 /\ 2 * (total - cost) <= 1000

\* the claim's example, the second attempt naming another model than the
\* first
C21_Witness ==
    /\ unit.op = "RewriteOrchestrator._calculate_total_token_metrics"
    /\ Len(unit.attempts) = 3
    /\ WithUsage(unit.attempts) = {1, 2}
    /\ unit.attempts[1].token_metrics[1].input_tokens = 100
    /\ unit.attempts[1].token_metrics[1].model = "gpt-4o-mini"
    /\ unit.attempts[2].token_metrics[1].input_tokens = 80
    /\ unit.attempts[2].token_metrics[1].model = "gpt-4o"
    /\ unit.out # None
    /\ unit.out[1].input_tokens = 180
    /\ unit.out[1].output_tokens = 90
    /\ unit.out[1].model = "gpt-4o-mini"

\* C22: the aggregated usage is absent exactly when no attempt carried
\* usage; an attempt carrying usage, even with all token counts zero, makes
\* the aggregate present.
C22_AggregateAbsentIffNoUsage ==
    unit.op = "RewriteOrchestrator._calculate_total_token_metrics"
    => (unit.out = None <=> WithUsage(unit.attempts) = {})

\* C23: for original_count >= 0 and 1 <= min <= max, _calculate_target_words
\* returns min below the range, max above it and original_count inside it;
\* the result lies in [min, max] and the function applied to its own result
\* returns it.
C23_TargetWordsClamps ==
    unit.op = "RewriteOrchestrator._calculate_target_words"
    => /\ unit.original_count < unit.min_words => unit.out = unit.min_words
       /\ unit.original_count > unit.max_words => unit.out = unit.max_words
       /\ ( /\ unit.min_words <= unit.original_count
            /\ unit.original_count <= unit.max_words )
          => unit.out = unit.original_count
       /\ unit.min_words <= unit.out
       /\ unit.out <= unit.max_words
       /\ unit.again = unit.out

\* the test's call above the range: (100, 10, 50) gives 50
C23_Witness ==
    /\ unit.op = "RewriteOrchestrator._calculate_target_words"
    /\ unit.original_count = 100
    /\ unit.min_words = 10
    /\ unit.max_words = 50
    /\ unit.out = 50
    /\ unit.again = 50

\* C24: extract_critical_tokens returns every number of the text, bare
\* integers included, with every percentage, date and acronym; for "En 2024,
\* el 80% de los datos se proceso el 15/02/2024" it returns "2024", "80%"
\* and the date.
C24_ExtractsEveryNumber ==
    unit.op = "WordCounter.extract_critical_tokens"
    => /\ \A cls \in {"decimal", "percent", "date", "acronym", "integer"} :
             FindAll(cls, unit.text) \subseteq unit.out
       /\ unit.text = TxtDatos
          => /\ <<"2", "0", "2", "4">> \in unit.out
             /\ <<"8", "0", "%">> \in unit.out
             /\ <<"1", "5", "/", "0", "2", "/", "2", "0", "2", "4">> \in unit.out

\* C25: count(text) is the number of maximal runs of non-whitespace
\* characters of text: "Hola, mundo! ?Como estas?" has 4 words, "Tengo 3
\* gatos y 5 perros" has 6, and an empty or whitespace-only text has 0.
C25_CountIsWhitespaceRuns ==
    unit.op = "WordCounter.count"
    => /\ unit.out =
              Cardinality({i \in 1..Len(unit.text) :
                              /\ unit.text[i] \notin Whitespace
                              /\ i = 1 \/ unit.text[i - 1] \in Whitespace})
       /\ unit.text = TxtHolaMundo => unit.out = 4
       /\ unit.text = TxtGatosPerros => unit.out = 6
       /\ unit.text \in {TxtEmpty, TxtSpaces} => unit.out = 0

\* a text with leading, repeated and trailing whitespace counts its two words
C25_Witness ==
    /\ unit.op = "WordCounter.count"
    /\ unit.text = TxtPadded
    /\ unit.out = 2

\* the vector has only zero components
IsZeroVector(vec) == \A i \in 1..Len(vec) : vec[i] = 0

C29_GuidanceFollowsDeltaSign ==
    unit.op = "LLMClient._build_prompt"
    => IF unit.delta = None \/ unit.delta = Some(0)
       THEN unit.out = None
       ELSE /\ unit.out # None
            /\ unit.out[1].words = Abs(unit.delta[1])
            /\ unit.delta[1] > 0 => unit.out[1].direction = "sobran"
            /\ unit.delta[1] < 0 => unit.out[1].direction = "faltan"

\* the records of log rejected by the semantic gate
SemanticallyRejected(log) ==
    {i \in 1..Len(log) : log[i].status = "REJECTED_BY_SEMANTIC_SIMILARITY"}

\* C27: a step that records a candidate rejected by the semantic gate makes
\* it the fallback if and only if its similarity is strictly greater than
\* that of every semantically-rejected candidate of the earlier attempts
\* (always, when there is none); otherwise it leaves the fallback unchanged.
C27_SemanticRejectReplacesIffBetter ==
    [][\A p \in Procs :
          ( /\ Len(attempts'[p]) = Len(attempts[p]) + 1
            /\ attempts'[p][Len(attempts'[p])].status =
                   "REJECTED_BY_SEMANTIC_SIMILARITY" )
          => IF \A i \in SemanticallyRejected(attempts[p]) :
                    attempts[p][i].similarity_score[1] <
                        attempts'[p][Len(attempts'[p])].similarity_score[1]
             THEN best_candidate'[p] =
                      Some(attempts'[p][Len(attempts'[p])].proposed_text)
             ELSE best_candidate'[p] = best_candidate[p]]_vars

\* C28: a step that calls rewrite_text passes no delta on attempt 1 and, on
\* an attempt n >= 2 that starts with a fallback candidate, the word count of
\* that candidate minus target_words.
C28_DeltaIsFallbackCountMinusTarget ==
    [][\A p \in Procs :
          ( /\ Len(calls'[p]) = Len(calls[p]) + 1
            /\ calls'[p][Len(calls'[p])].op = "rewrite_text" )
          => /\ calls'[p][Len(calls'[p])].attempt_number = 1
                => calls'[p][Len(calls'[p])].delta = None
             /\ ( /\ calls'[p][Len(calls'[p])].attempt_number >= 2
                  /\ best_candidate[p] # None )
                => calls'[p][Len(calls'[p])].delta =
                       Some(count(best_candidate[p][1]) - target_words[p][1])]_vars

\* C30: every record of the attempt log carries delta = word_count -
\* target_words, the records of failed rewrite calls included.
C30_RecordDeltaIsCountMinusTarget ==
    \A p \in Procs :
        \A i \in 1..Len(attempts[p]) :
            attempts[p][i].delta =
                attempts[p][i].word_count - target_words[p][1]

\* C34: validate applies the numeric/date check, the critical-token check
\* and the no-new-facts check in this order and stops at the first that
\* fails: the reason is that of the first failing check, the result is (true,
\* "") only when all three pass, and the critical-token check passes when no
\* critical tokens are given.
C34_HardRulesInOrder ==
    unit.op = "HardRulesValidator.validate"
    => LET numeric  == check_numeric_preservation(unit.original,
                                                  unit.rewritten)
           critical == \/ unit.critical_tokens = {}
                       \/ check_critical_tokens(unit.rewritten,
                                                unit.critical_tokens)
           facts    == check_no_new_facts(unit.original, unit.rewritten)
       IN  /\ unit.out.passed <=> (numeric /\ critical /\ facts)
           /\ unit.out.passed => unit.out.reason = ""
           /\ ~ numeric => unit.out.reason = ReasonNumeric
           /\ (numeric /\ ~ critical) => unit.out.reason = ReasonCritical
           /\ (numeric /\ critical /\ ~ facts)
              => unit.out.reason = ReasonNewFacts

\* a rewrite that fails all three checks is rejected for its numbers
C34_Witness ==
    /\ unit.op = "HardRulesValidator.validate"
    /\ ~ check_numeric_preservation(unit.original, unit.rewritten)
    /\ unit.critical_tokens # {}
    /\ ~ check_critical_tokens(unit.rewritten, unit.critical_tokens)
    /\ ~ check_no_new_facts(unit.original, unit.rewritten)
    /\ unit.out = [passed |-> FALSE, reason |-> ReasonNumeric]

\* the maximal runs of non-whitespace characters of text, as (start, end)
\* pairs, start 0-based and end exclusive
Runs(text) ==
    {r \in (0..Len(text)) \X (1..Len(text)) :
        /\ r[1] < r[2]
        /\ \A k \in (r[1] + 1)..r[2] : text[k] \notin Whitespace
        /\ r[1] = 0 \/ text[r[1]] \in Whitespace
        /\ r[2] = Len(text) \/ text[r[2] + 1] \in Whitespace}

\* the distinct lower-cased tokens of text that are not stop words
NonStopTokens(text) ==
    {Lower(SubSeq(text, r[1] + 1, r[2])) : r \in Runs(text)} \ StopWords

C38_BoundariesAreTheTokens ==
    unit.op = "WordCounter.get_word_boundaries"
    => /\ Len(unit.out) = count(unit.text)
       /\ {unit.out[k] : k \in 1..Len(unit.out)} = Runs(unit.text)
       /\ \A k \in 1..Len(unit.out) :
             /\ unit.out[k][1] < unit.out[k][2]
             /\ k > 1 => unit.out[k - 1][2] <= unit.out[k][1]
             /\ SubSeq(unit.text, unit.out[k][1] + 1, unit.out[k][2])
                    = Split(unit.text)[k]
       /\ unit.text = TxtPadded => unit.out = << <<2, 6>>, <<9, 14>> >>

\* "ab a b ab": the second and third words occur inside the first
C38_Witness ==
    /\ unit.op = "WordCounter.get_word_boundaries"
    /\ unit.text = TxtAbAB
    /\ unit.out = << <<0, 2>>, <<3, 4>>, <<5, 6>>, <<7, 9>> >>

\* C31: target_words is computed once, before the first attempt, and never
\* changes during the run: every rewrite call of the orchestration receives
\* it, every recorded delta is word_count minus it, and it is min_words or
\* max_words.
C31_TargetWordsIsFixed ==
    [](\A p \in Procs :
          target_words[p] # None
          => /\ target_words[p][1] \in {request[p].min_words,
                                        request[p].max_words}
             /\ \A k \in 1..Len(RewriteCalls(p)) :
                   RewriteCalls(p)[k].target_words = target_words[p][1]
             /\ \A i \in 1..Len(attempts[p]) :
                   attempts[p][i].delta =
                       attempts[p][i].word_count - target_words[p][1])
    /\ [][\A p \in Procs :
             target_words[p] # None
             => target_words'[p] = target_words[p]]_vars

\* the hard_rules_validate calls thread p has made
HardRulesCalls(p) ==
    SelectSeq(calls[p], LAMBDA c : c.op = "hard_rules_validate")

\* C32: the critical tokens of the original text go to rewrite_text on
\* attempt 1 only, every later rewrite call receives none, and the hard rules
\* validator, called once for every in-range attempt, receives the critical
\* tokens of the original text each time.
C32_CriticalTokensSentOnce ==
    \A p \in Procs :
        /\ \A k \in 1..Len(RewriteCalls(p)) :
              RewriteCalls(p)[k].critical_tokens =
                  IF RewriteCalls(p)[k].attempt_number = 1
                  THEN Some(extract_critical_tokens(request[p].input_text))
                  ELSE None
        /\ \A k \in 1..Len(HardRulesCalls(p)) :
              HardRulesCalls(p)[k].critical_tokens =
                  extract_critical_tokens(request[p].input_text)
        /\ \A i \in 1..Len(attempts[p]) :
              Len(CallsOf(p, "hard_rules_validate", i)) =
                  IF /\ ~ IsFailureRecord(attempts[p][i])
                     /\ request[p].min_words <= attempts[p][i].word_count
                     /\ attempts[p][i].word_count <= request[p].max_words
                  THEN 1
                  ELSE 0

\* two in-range attempts of a text with critical tokens, and a third call
C32_Witness ==
    \E p \in Procs :
        /\ Len(RewriteCalls(p)) = 3
        /\ RewriteCalls(p)[1].critical_tokens # None
        /\ RewriteCalls(p)[1].critical_tokens # Some({})
        /\ RewriteCalls(p)[2].critical_tokens = None
        /\ RewriteCalls(p)[3].critical_tokens = None
        /\ Len(HardRulesCalls(p)) = 2
        /\ HardRulesCalls(p)[1].critical_tokens =
               HardRulesCalls(p)[2].critical_tokens
        /\ HardRulesCalls(p)[1].critical_tokens # {}

C36_OutOfRangeIffCountOutside ==
    \A p \in Procs :
        \A i \in 1..Len(attempts[p]) :
            /\ attempts[p][i].status = "OUT_OF_RANGE"
               <=> ~ ( /\ request[p].min_words <= attempts[p][i].word_count
                       /\ attempts[p][i].word_count <= request[p].max_words )
            /\ attempts[p][i].status \in
                   {"OUT_OF_RANGE", "REJECTED_BY_HARD_RULES",
                    "REJECTED_BY_SEMANTIC_SIMILARITY", "ACCEPTED"}

\* a log with a proposal above the range, a failed call and an in-range
\* proposal
C36_Witness ==
    \E p \in Procs :
        /\ Len(attempts[p]) = 3
        /\ \E i \in 1..3 :
              /\ attempts[p][i].status = "OUT_OF_RANGE"
              /\ attempts[p][i].word_count > request[p].max_words
        /\ \E i \in 1..3 : IsFailureRecord(attempts[p][i])
        /\ \E i \in 1..3 :
              /\ attempts[p][i].status # "OUT_OF_RANGE"
              /\ request[p].min_words <= attempts[p][i].word_count
              /\ attempts[p][i].word_count <= request[p].max_words

\* C37: every Result returned carries the mode and the model of the request,
\* and every Result of a valid request carries the target_words computed
\* from the original count and the range.
C37_ResultCarriesModeModelTarget ==
    \A p \in Procs :
        pc[p] = "done"
        => /\ result[p][1].mode = request[p].mode
           /\ result[p][1].model = request[p].model
           /\ ~ InvalidRequest(request[p])
              => result[p][1].target_words =
                     Some(IF count(request[p].input_text) < request[p].min_words
                          THEN request[p].min_words
                          ELSE IF count(request[p].input_text)
                                      > request[p].max_words
                               THEN request[p].max_words
                               ELSE count(request[p].input_text))

====
